---------------------------- MODULE Spec2Model ----------------------------
(***************************************************************************)
(* Register model and batched read/write engine of the modbus-to-MQTT      *)
(* bridge: Server (server.py), its two device families KehuaInverter and   *)
(* AtessInverter, the poll loop App.loop (app.py) and the inbound command  *)
(* handler MqttClient.message_handler (modbus_mqtt.py).                    *)
(*                                                                         *)
(* Python objects are modelled by value:                                   *)
(*   - a parameter dict entry is a record [addr, count, dtype,             *)
(*     register_type, ha_entity_type]; a dict is the sequence of its       *)
(*     entries in insertion order (the planner) or, for the named tables   *)
(*     of the two families, the set of its keys;                           *)
(*   - an attribute that has not been assigned yet is the empty tuple;     *)
(*   - a raised exception is the string naming its class.                  *)
(***************************************************************************)
EXTENDS Integers, Sequences, FiniteSets, TLC

VARIABLES
    \* ---- pure-function harness ----
    fn_in,                  \* the argument handed to the function under check
    fn_out,                 \* its result (<<>> before it has been applied)
    \* ---- Server objects (server.py:21-30, kehua_inverter.py:169-175,
    \*      atess_inverter.py:14-21), one per configured device ----
    family,                 \* device -> "Kehua" | "Atess" (the Server subclass)
    model,                  \* device -> self._model
    atess_parameters,       \* the module-level dict atess_registers.atess_parameters
                            \*   (its keys); every AtessInverter's _parameters IS it
    all_parameters,         \* device -> lru_cache of the all_parameters property:
                            \*   <<>> not computed yet, else <<set of keys>>
    holding_addr_extent,    \* device -> <<>> | <<min, max>>
    input_addr_extent,      \* device -> <<>> | <<min, max>>
    holding_batches,        \* device -> <<>> | sequence of <<first, last>>
    input_batches,          \* device -> <<>> | sequence of <<first, last>>
    holding_state,          \* device -> list of words
    input_state,            \* device -> list of words
    \* ---- the shared Transport Client and the field devices behind it ----
    gen,                    \* generation of the devices' register contents
    wire,                   \* thread -> <<>> | the request awaiting its response
    \* ---- main thread: App.connect / App.loop, or a caller of Server.connect ----
    app_phase,              \* "api" | "connect" | "loop" | "crashed"
    pc,                     \* position of the main thread
    cur,                    \* index in Servers of the server being handled
    batch_i,                \* index of the batch being read
    cycles,                 \* poll cycles started so far
    attempts,               \* device -> connect attempts started so far
    last_error,             \* the exception that ended the last main-thread call
    connect_log,            \* device -> steps started in its latest attempt
    cycle_pre,              \* <<holding_state, input_state>> when read_batches began
    cycle_reads,            \* responses received by the running read_batches
    published,              \* device -> values App.loop published last for it
    \* ---- MQTT network thread: MqttClient.message_handler ----
    mqtt_started,           \* mqtt_client.loop_start() has run
    pc_mqtt,                \* position of the callback thread
    msg,                    \* the message being handled
    attempt,                \* write attempts made by with_retries
    msgs,                   \* messages delivered so far
    mqtt_log,               \* transport operations of the running handler call
    mqtt_result,            \* how the last handler call ended
    mqtt_pub,               \* what the last handler call published (<<>> nothing)
    \* ---- process exit (app.py:29-40, 101-102) ----
    atexit_registered,      \* atexit.register(exit_handler, ...) has run
    exit_log,               \* what the process did while exiting, in order
                            \*   (<<>> while it runs)
    \* ---- MqttClient.publish_discovery_topics (modbus_mqtt.py:82-168) ----
    announced               \* device -> what was published and subscribed
                            \*   for it, in order (<<>> nothing)

fn_vars == <<fn_in, fn_out>>

exit_vars == <<atexit_registered, exit_log, announced>>

server_vars == <<family, model, atess_parameters, all_parameters,
                 holding_addr_extent, input_addr_extent,
                 holding_batches, input_batches, holding_state, input_state>>

plan_vars == <<atess_parameters, all_parameters, holding_addr_extent,
               input_addr_extent, holding_batches, input_batches>>

state_vars == <<holding_state, input_state>>

main_vars == <<app_phase, pc, cur, batch_i, cycles, attempts, last_error,
               connect_log, cycle_pre, cycle_reads, published>>

mqtt_vars == <<mqtt_started, pc_mqtt, msg, attempt, msgs, mqtt_log,
               mqtt_result, mqtt_pub>>

vars == <<fn_in, fn_out, family, model, atess_parameters, all_parameters,
          holding_addr_extent, input_addr_extent, holding_batches,
          input_batches, holding_state, input_state, gen, wire,
          app_phase, pc, cur, batch_i, cycles, attempts, last_error,
          connect_log, cycle_pre, cycle_reads, published,
          mqtt_started, pc_mqtt, msg, attempt, msgs, mqtt_log,
          mqtt_result, mqtt_pub, atexit_registered, exit_log, announced>>

-----------------------------------------------------------------------------
(* Bounds of the model.                                                    *)

MaxParams == 3      \* entries of a planner input dict
MaxAddr   == 2      \* largest address of a planner input parameter
MaxCount  == 3      \* largest word count of a planner input parameter
MaxLo     == 2      \* largest extent minimum handed to create_batches
MaxWidth  == 300    \* widest extent handed to create_batches
MaxConnects == 2    \* connect attempts a caller makes per device
MaxCycles == 2      \* poll cycles of App.loop
MaxMsgs   == 1      \* inbound MQTT messages
MaxGen    == 1      \* times the devices' register contents change

-----------------------------------------------------------------------------
(* Program constants.                                                      *)

HOLDING_REGISTER == "holding"
INPUT_REGISTER   == "input"
RegisterTypes    == {HOLDING_REGISTER, INPUT_REGISTER}

\* server.py:128  def create_batches(self, batch_size=125)
BatchSize == 125

-----------------------------------------------------------------------------
(* Helpers standing for Python built-ins.                                  *)

Min2(a, b) == IF a <= b THEN a ELSE b

SetMin(S) == CHOOSE x \in S : \A y \in S : x <= y

SetMax(S) == CHOOSE x \in S : \A y \in S : y <= x

SeqToSet(s) == { s[i] : i \in 1..Len(s) }

\* sorted(seq, key=addr): stable insertion sort, ties keep insertion order.
RECURSIVE InsertByAddr(_, _)
InsertByAddr(sorted, p) ==
    IF sorted = <<>> THEN <<p>>
    ELSE IF sorted[Len(sorted)].addr <= p.addr THEN Append(sorted, p)
    ELSE Append(InsertByAddr(SubSeq(sorted, 1, Len(sorted) - 1), p),
                sorted[Len(sorted)])

RECURSIVE SortedByAddr(_)
SortedByAddr(s) ==
    IF s = <<>> THEN <<>>
    ELSE InsertByAddr(SortedByAddr(SubSeq(s, 1, Len(s) - 1)), s[Len(s)])

-----------------------------------------------------------------------------
(* Server.find_register_extent (server.py:85-125).                         *)

\* lines 100-101, 104-105: the parameters of one category, by address.
ParamsOfType(parameters, rt) ==
    SortedByAddr(SelectSeq(parameters, LAMBDA p : p.register_type = rt))

\* lines 108-116: the addresses of the category, plus the end of the LAST
\* (highest-address) parameter when its count is not 1.
CategoryAddrs(sorted_params) ==
    { sorted_params[i].addr : i \in 1..Len(sorted_params) }
    \cup (IF sorted_params # <<>> /\ sorted_params[Len(sorted_params)].count # 1
          THEN { sorted_params[Len(sorted_params)].count - 1
                   + sorted_params[Len(sorted_params)].addr }
          ELSE {})

\* lines 122-123: (min(addrs), max(addrs)); min() of an empty list raises.
ExtentOf(addrs) == IF addrs = {} THEN <<>> ELSE <<SetMin(addrs), SetMax(addrs)>>

\* The whole method.  holding_addr_extent is assigned (line 122) before the
\* input extent is computed (line 123), so a ValueError of line 123 leaves
\* it assigned; a ValueError of line 122 assigns nothing.
FindRegisterExtent(parameters) ==
    LET holding_addrs == CategoryAddrs(ParamsOfType(parameters, HOLDING_REGISTER))
        input_addrs   == CategoryAddrs(ParamsOfType(parameters, INPUT_REGISTER))
    IN  IF holding_addrs = {}
        THEN [error |-> "ValueError", holding |-> <<>>, input |-> <<>>]
        ELSE IF input_addrs = {}
        THEN [error |-> "ValueError", holding |-> ExtentOf(holding_addrs),
              input |-> <<>>]
        ELSE [error |-> "none", holding |-> ExtentOf(holding_addrs),
              input |-> ExtentOf(input_addrs)]

-----------------------------------------------------------------------------
(* Server.create_batches (server.py:128-146).                              *)

\* A slice that is not cut at the end of the range.
BatchSlice_unclamped(lo, l, ndx, batch_size) ==
    <<lo + ndx, lo + (ndx + batch_size) - 1>>

\* line 137: iterable[ndx:min(ndx + batch_size, l)] of range(lo, lo + l),
\* as the pair (first address, last address) of the slice.
BatchSlice(lo, l, ndx, batch_size) ==
    <<lo + ndx, lo + Min2(ndx + batch_size, l) - 1>>

\* lines 134-137: one slice per ndx in range(0, l, batch_size).
Batch(lo, l, batch_size) ==
    [k \in 1..((l + batch_size - 1) \div batch_size) |->
        BatchSlice(lo, l, (k - 1) * batch_size, batch_size)]

\* lines 139-140: batches of range(extent[0], extent[1] + 1).
CreateBatches(extent, batch_size) ==
    Batch(extent[1], IF extent[2] + 1 - extent[1] > 0
                     THEN extent[2] + 1 - extent[1] ELSE 0, batch_size)

BatchWidth(b) == b[2] - b[1] + 1

-----------------------------------------------------------------------------
(* Device profiles.  Of each register table the model keeps the entries    *)
(* the lifecycle itself names plus the lowest and highest address of each  *)
(* category, with the addresses, counts and types of the source.           *)

U16  == "U16"
I16  == "I16"
U32  == "U32"
I32  == "I32"
UTF8 == "UTF8"

\* kehua_inverter.py:24-108  KehuaInverter.input_registers
KehuaInputRegisters == {"Device Model", "Running Status"}

\* kehua_inverter.py:111-168  KehuaInverter.holding_parameters
KehuaHoldingParameters == {"Time Setting Hour"}

\* atess_registers.py:53-229  atess_parameters as the module is imported
AtessParameters ==
    {"Serial Number", "Device Type Code", "Device On/Off", "Battery Power",
     "Battery Voltage"}

\* atess_registers.py:3-51
NotPCSParameters == {"PV1 Voltage"}

\* atess_registers.py:230-761
PCSParameters == {"Frequency Shift Enable", "Output Voltage UV"}

\* atess_registers.py:763-921
PBDParameters == {"PV2 Voltage"}

ParamRec(a, c, t, rt, m, k) ==
    [addr |-> a, count |-> c, dtype |-> t, register_type |-> rt,
     multiplier |-> m, ha_entity_type |-> k]

\* The dict entry stored under a key (keys are unique across the tables).
Param(name) ==
    CASE name = "Device Model"      -> ParamRec(4801, 10, UTF8, INPUT_REGISTER, "1", "none")
      [] name = "Running Status"    -> ParamRec(5002, 1, U16, INPUT_REGISTER, "1", "none")
      [] name = "Time Setting Hour" -> ParamRec(6024, 1, I16, HOLDING_REGISTER, "1", "number")
      [] name = "Serial Number"     -> ParamRec(181, 5, UTF8, HOLDING_REGISTER, "1", "none")
      [] name = "Device Type Code"  -> ParamRec(44, 1, U16, HOLDING_REGISTER, "1", "none")
      [] name = "Device On/Off"     -> ParamRec(1, 1, U16, HOLDING_REGISTER, "1", "none")
      [] name = "Battery Power"     -> ParamRec(18, 1, I16, INPUT_REGISTER, "0.1", "none")
      [] name = "Battery Voltage"   -> ParamRec(2, 1, I16, INPUT_REGISTER, "0.1", "none")
      [] name = "PV1 Voltage"       -> ParamRec(1, 1, I16, INPUT_REGISTER, "0.1", "none")
      [] name = "Frequency Shift Enable" -> ParamRec(80, 1, U16, HOLDING_REGISTER, "1", "none")
      [] name = "Output Voltage UV" -> ParamRec(5, 1, U16, INPUT_REGISTER, "0.1", "none")
      [] name = "PV2 Voltage"       -> ParamRec(106, 1, I16, INPUT_REGISTER, "0.1", "none")

\* The "unit" of the entry stored under a key.
UnitOf(name) ==
    CASE name = "Battery Power" -> "kW"
      [] name \in {"Battery Voltage", "PV1 Voltage", "Output Voltage UV",
                   "PV2 Voltage"} -> "V"
      [] OTHER -> ""

\* The "device_class" of the entry stored under a key; "none" where the
\* entry has none.
DeviceClassOf(name) ==
    CASE name = "Battery Power" -> "power"
      [] name \in {"Battery Voltage", "PV1 Voltage", "Output Voltage UV",
                   "PV2 Voltage"} -> "voltage"
      [] name = "Time Setting Hour" -> "none"
      [] OTHER -> "enum"

\* Insertion order of the keys (the order of the tables in the source).
KeyOrder ==
    <<"Device Model", "Running Status", "Time Setting Hour",
      "Serial Number", "Device Type Code", "Device On/Off", "Battery Power",
      "Battery Voltage",
      "PV1 Voltage", "Frequency Shift Enable", "Output Voltage UV",
      "PV2 Voltage">>

\* The dict with the given keys, as the sequence of its entries.
Entries(keys) ==
    LET ks == SelectSeq(KeyOrder, LAMBDA n : n \in keys)
    IN  [i \in 1..Len(ks) |-> Param(ks[i])]

\* helpers.slugify of a key (helpers.py is not part of the sources): lower
\* case, blanks to underscores.
Slugify(name) ==
    CASE name = "Time Setting Hour" -> "time_setting_hour"
      [] OTHER -> name

\* The configured servers, in the order of App.servers; both borrow the one
\* Transport Client.
Servers == <<"d1", "d2">>

Devices == SeqToSet(Servers)

ModbusId(d) == IF d = "d1" THEN 1 ELSE 2

KEHUA == "Kehua"
ATESS == "Atess"

\* kehua_inverter.py:173, atess_inverter.py:18
SupportedModels(f) ==
    IF f = KEHUA THEN {"BCS500K-A"} ELSE {"PCS150", "PCS500", "PBD250"}

\* kehua_inverter.py:174 (the first supported model), server.py:27
InitialModel(f) == IF f = KEHUA THEN "BCS500K-A" ELSE "unknown"

\* Server.parameters: kehua_inverter.py:178-180, atess_inverter.py:32-34.
Parameters(d) ==
    IF family[d] = ATESS THEN atess_parameters ELSE KehuaInputRegisters

\* Server.write_parameters: kehua_inverter.py:182-184 and :175,
\* atess_inverter.py:36-38 and :20 (an empty dict).
WriteParameters(d) ==
    IF family[d] = ATESS THEN {} ELSE KehuaHoldingParameters

\* A property that recomputes parameters | write_parameters on every access.
AllParameters_uncached(d) == Parameters(d) \cup WriteParameters(d)

\* Server.all_parameters (server.py:57-62): @property @lru_cache, so the
\* dict built on the first access is returned on every later access.
AllParameters(d) ==
    IF all_parameters[d] # <<>> THEN all_parameters[d][1]
    ELSE Parameters(d) \cup WriteParameters(d)

\* Server.write_parameters_slug_to_name (server.py:64-68), its keys.
WriteSlugs(d) == { Slugify(n) : n \in WriteParameters(d) }

SlugToName(d, slug) == CHOOSE n \in WriteParameters(d) : Slugify(n) = slug

-----------------------------------------------------------------------------
(* Value codecs.  A decoded value is a list: <<n>> for a number, the bytes *)
(* of the text for a string.  A result is [error, val].                    *)

Ok(v)   == [error |-> "none", val |-> v]
Err(e)  == [error |-> e, val |-> <<>>]

\* kehua_inverter.py:205-207
Kehua_decode_u16(registers) ==
    IF registers = <<>> THEN Err("IndexError") ELSE Ok(<<registers[1]>>)

\* A decoder that leaves the word unsigned.
Kehua_decode_s16_unsigned(registers) ==
    IF registers = <<>> THEN Err("IndexError") ELSE Ok(<<registers[1]>>)

\* kehua_inverter.py:209-213: struct '>h' of each register, the first one.
Kehua_decode_s16(registers) ==
    IF registers = <<>> THEN Err("IndexError")
    ELSE Ok(<<IF registers[1] >= 32768 THEN registers[1] - 65536
              ELSE registers[1]>>)

\* The 32 bits high:low read as a signed number (written so that no
\* intermediate value leaves the 32-bit range of the checker's integers).
Signed32(high, low) ==
    IF high >= 32768 THEN (high - 65536) * 65536 + low
    ELSE high * 65536 + low

\* The number (high << 16) + low.  A number from 2^31 on does not fit the
\* checker's integers and is written <<n - 2^32, 1>>: its 32 bits read as
\* signed, and the carry of 2^32.
Unsigned32(high, low) ==
    IF high >= 32768 THEN <<Signed32(high, low), 1>>
    ELSE <<high * 65536 + low>>

\* A decoder that takes the first register as the low word.
Kehua_decode_u32_lowFirst(registers) ==
    IF Len(registers) # 2 THEN Err("ValueError")
    ELSE Ok(Unsigned32(registers[2], registers[1]))

\* kehua_inverter.py:215-217: high, low = registers
Kehua_decode_u32(registers) ==
    IF Len(registers) # 2 THEN Err("ValueError")
    ELSE Ok(Unsigned32(registers[1], registers[2]))

\* kehua_inverter.py:219-223: (high << 16) + low read as a signed 32-bit
\* number, i.e. less 2^32 when bit 31 is set (written so that no
\* intermediate value leaves the 32-bit range).
Kehua_decode_s32(registers) ==
    IF Len(registers) # 2 THEN Err("ValueError")
    ELSE Ok(<<IF registers[1] >= 32768
              THEN (registers[1] - 65536) * 65536 + registers[2]
              ELSE registers[1] * 65536 + registers[2]>>)

\* kehua_inverter.py:225-226: the bytes of the registers, high byte first.
Kehua_decode_utf8(registers) ==
    Ok([i \in 1..(2 * Len(registers)) |->
          IF i % 2 = 1 THEN registers[(i + 1) \div 2] \div 256
          ELSE registers[i \div 2] % 256])

\* kehua_inverter.py:228-235
Kehua_decoded(registers, dtype) ==
    CASE dtype = UTF8 -> Kehua_decode_utf8(registers)
      [] dtype = U16  -> Kehua_decode_u16(registers)
      [] dtype = U32  -> Kehua_decode_u32(registers)
      [] dtype = I16  -> Kehua_decode_s16(registers)
      [] dtype = I32  -> Kehua_decode_s32(registers)
      [] OTHER        -> Err("NotImplementedError")

\* A value handed to the encoder is the number n / den: a Python int
\* (den = 1, is_float FALSE) or a float.
PyInt(n) == [n |-> n, den |-> 1, is_float |-> FALSE]

PyFloat(n, den) == [n |-> n, den |-> den, is_float |-> TRUE]

\* An encoder that rounds a float half up.
Kehua_encode_u16_rounds(value) ==
    IF value.n > (65536 - 1) * value.den THEN Err("ValueError")
    ELSE IF value.n < 0 THEN Err("ValueError")
    ELSE Ok(<<(2 * value.n + value.den) \div (2 * value.den)>>)

\* kehua_inverter.py:243-253 _encode_u16: the range check, then int(value)
\* of a float (which is not negative here, so truncation is the floor).
Kehua_encode_u16(value) ==
    IF value.n > (65536 - 1) * value.den THEN Err("ValueError")
    ELSE IF value.n < 0 THEN Err("ValueError")
    ELSE IF value.is_float THEN Ok(<<value.n \div value.den>>)
    ELSE Ok(<<value.n>>)

\* A call that returned None: no exception and no list of words.
ReturnsNone == [error |-> "none", val |-> <<>>, none |-> TRUE]

\* kehua_inverter.py:237-255: U16 is encoded, every other type falls off the
\* end of the function, which returns None.
Kehua_encoded(value, dtype) ==
    IF dtype = U16 THEN Kehua_encode_u16(value)
    ELSE ReturnsNone

\* atess_inverter.py:87-89
Atess_decode_u16(registers) ==
    IF registers = <<>> THEN Err("IndexError") ELSE Ok(<<registers[1]>>)

\* atess_inverter.py:91-96: struct '>HH' of high = registers[0] and
\* low = registers[1], read as '>I'.
Atess_decode_u32(registers) ==
    IF Len(registers) < 2 THEN Err("IndexError")
    ELSE Ok(Unsigned32(registers[1], registers[2]))

\* A decoder that takes bit 15 as the sign.
Atess_decode_s16_bit15(registers) ==
    IF registers = <<>> THEN Err("IndexError")
    ELSE Ok(<<IF (registers[1] \div 32768) % 2 = 1
              THEN registers[1] - 65536 ELSE registers[1]>>)

\* atess_inverter.py:98-102: sign = 0xFFFF if registers[0] & 0x1000 else 0;
\* struct '>HH' of sign and the word, read as '>i'.
Atess_decode_s16(registers) ==
    IF registers = <<>> THEN Err("IndexError")
    ELSE Ok(<<IF (registers[1] \div 4096) % 2 = 1
              THEN registers[1] - 65536 ELSE registers[1]>>)

\* atess_inverter.py:104-108: struct '>H' of registers[0], decoded.
Atess_decode_utf8(registers) ==
    IF registers = <<>> THEN Err("IndexError")
    ELSE Ok(<<registers[1] \div 256, registers[1] % 256>>)

\* atess_inverter.py:86-113
Atess_decoded(registers, dtype) ==
    CASE dtype = U16  -> Atess_decode_u16(registers)
      [] dtype = I16  -> Atess_decode_s16(registers)
      [] dtype = U32  -> Atess_decode_u32(registers)
      [] dtype = UTF8 -> Atess_decode_utf8(registers)
      [] OTHER        -> Err("NotImplementedError")

\* self._decoded of the device's class.
Decoded(f, registers, dtype) ==
    IF f = KEHUA THEN Kehua_decoded(registers, dtype)
    ELSE Atess_decoded(registers, dtype)

\* self._encoded(value, dtype): atess_inverter.py:115-116 takes one argument
\* less than it is called with.
Encoded(f, value, dtype) ==
    IF f = KEHUA THEN Kehua_encoded(value, dtype) ELSE Err("TypeError")

\* server.py:276-277 / 321-322: the decoded value with its scale.
Scaled(val, multiplier) == [val |-> val, multiplier |-> multiplier]

\* enums.device_class_to_rounding.get(device_class, 2) (server.py:280, 328;
\* enums.py is not part of the sources): the default of 2 decimal places.
DeviceClassToRounding(device_class) == 2

\* str.startswith('k') of a unit (server.py:324).
StartsWithK(unit) == unit \in {"kW", "kWh", "kVA", "kVar"}

\* The integer nearest to n / d, ties to the even one (Python's round).
RoundHalfEven(n, d) ==
    LET q == n \div d
        r == n - q * d
    IN  IF 2 * r < d THEN q
        ELSE IF 2 * r > d THEN q + 1
        ELSE IF q % 2 = 0 THEN q ELSE q + 1

\* round(val, ndigits) of a scaled number: an int, and a float in tenths
\* rounded to one decimal place or more, is its own rounding; a float in
\* tenths rounded to no decimal place stays a float.
Rounded(scaled, ndigits) ==
    IF scaled.multiplier = "0.1" /\ ndigits = 0
    THEN [val |-> <<10 * RoundHalfEven(scaled.val[1], 10)>>, multiplier |-> "0.1"]
    ELSE scaled

\* server.py:278 and :323, `device_class is not None and isinstance(val,
\* int) or isinstance(val, float)`: the value is a float once it was
\* multiplied by a multiplier other than 1.
RoundingApplies(param, device_class) ==
    \/ device_class # "none" /\ param.dtype # UTF8 /\ param.multiplier = "1"
    \/ param.dtype # UTF8 /\ param.multiplier # "1"

\* server.py:279-280: the precision read_from_state rounds to.
RoundingOfState(unit, class_digits) == class_digits

\* server.py:324-328: the precision read_registers rounds to.
RoundingOfRead(unit, class_digits) ==
    IF StartsWithK(unit) THEN 1 ELSE class_digits

\* server.py:275-283 and :320-331: the words decoded, scaled and, where
\* rounding applies, rounded to ndigits.  [error, val].
ValueOf(f, param, device_class, words, ndigits) ==
    LET dec == Decoded(f, words, param.dtype)
    IN  IF dec.error # "none" THEN dec
        ELSE IF RoundingApplies(param, device_class)
             THEN Ok(Rounded(Scaled(dec.val, param.multiplier), ndigits))
             ELSE Ok(Scaled(dec.val, param.multiplier))

-----------------------------------------------------------------------------
(* The field devices and the Transport Client (client.py is not part of    *)
(* the sources; this is its contract: a read answers with an error result  *)
(* or with the words of the requested range, a write succeeds or raises    *)
(* ModbusException, connect succeeds or raises ConnectionError).           *)

\* The word a device holds at an address while the contents have
\* generation g.
RegWord(slave, rt, addr, g) ==
    (addr * 3 + slave * 1000 + (IF rt = INPUT_REGISTER THEN 7 ELSE 0)
       + g * 33000) % 65536

\* result.registers of a successful read(address, count, slave_id, type).
ReadWords(slave, rt, addr, count, g) ==
    [i \in 1..count |-> RegWord(slave, rt, addr + i - 1, g)]

ReadRequest(addr, count, slave, rt) ==
    [op |-> "read", addr |-> addr, count |-> count, slave |-> slave,
     register_type |-> rt]

WriteRequest(values, addr, slave, rt) ==
    [op |-> "write", values |-> values, addr |-> addr, slave |-> slave,
     register_type |-> rt]

\* The answers a device gives when its model is read: the decoded
\* "Device Model" text (Kehua), or the name the "Device Type Code" maps to
\* in model_code_to_name, "unmapped" when it maps to none (Atess,
\* atess_registers.py:923-969).
ModelAnswers(f) ==
    IF f = KEHUA THEN {"BCS500K-A", "BCS100K-A"}
    ELSE {"PCS500", "PBD250", "HPS30", "unmapped"}

-----------------------------------------------------------------------------
(* Server.read_from_state (server.py:249-283).                             *)

\* list[start:stop] of Python, 0-based, negative indices counted from the end.
PySlice(list, start, stop) ==
    LET n  == Len(list)
        s0 == IF start < 0 THEN (IF start + n < 0 THEN 0 ELSE start + n)
              ELSE Min2(start, n)
        e0 == IF stop < 0 THEN (IF stop + n < 0 THEN 0 ELSE stop + n)
              ELSE Min2(stop, n)
    IN  IF e0 <= s0 THEN <<>> ELSE SubSeq(list, s0 + 1, e0)

\* A window that starts one word late.
WindowOf_offByOne(state, addr_extent, param) ==
    PySlice(state, param.addr - addr_extent[1] + 1,
            param.addr + param.count - addr_extent[1] + 1)

\* lines 268 and 270: state[address - extent[0] : address + count - extent[0]].
WindowOf(state, addr_extent, param) ==
    PySlice(state, param.addr - addr_extent[1],
            param.addr + param.count - addr_extent[1])

\* self.holding_addr_extent / self.input_addr_extent: the attribute exists
\* once find_register_extent has assigned it (lines 122-123); <<>> stands
\* for the attribute that does not exist yet, whose read raises
\* AttributeError.
ExtentOfCategory(d, rt) ==
    IF rt = HOLDING_REGISTER THEN holding_addr_extent[d]
    ELSE input_addr_extent[d]

\* lines 265-270: the window of the parameter in the category's buffer.
StateWindow(d, param) ==
    IF param.register_type = HOLDING_REGISTER
    THEN WindowOf(holding_state[d], holding_addr_extent[d], param)
    ELSE WindowOf(input_state[d], input_addr_extent[d], param)

\* lines 274-283: result[0] of the debug message raises IndexError on an
\* empty window; every other window is decoded, scaled and rounded.
ValueOfWindow(f, param, device_class, result, ndigits) ==
    IF result = <<>> THEN Err("IndexError")
    ELSE ValueOf(f, param, device_class, result, ndigits)

\* A lookup that answers None for a name it does not find.
UndefinedParameter_none == Ok("None")

\* lines 250-252 (and 295-299 of read_registers): param is None raises
\* ValueError.
UndefinedParameter == Err("ValueError")

\* The whole method: [error, val].
ReadFromState(d, parameter_name) ==
    IF parameter_name \notin AllParameters(d) THEN UndefinedParameter
    ELSE LET param  == Param(parameter_name)
             result == StateWindow(d, param)
         IN  IF ExtentOfCategory(d, param.register_type) = <<>>
             THEN Err("AttributeError")
             ELSE
             ValueOfWindow(family[d], param, DeviceClassOf(parameter_name),
                           result,
                           RoundingOfState(UnitOf(parameter_name),
                               DeviceClassToRounding(DeviceClassOf(parameter_name))))

-----------------------------------------------------------------------------
(* Initial state: the Server objects as constructed (App.setup), nothing   *)
(* connected, no thread besides the main one.                              *)

Threads == {"main", "mqtt"}

Families == {KEHUA, ATESS}

Index(d) == CHOOSE i \in 1..Len(Servers) : Servers[i] = d

Cur == Servers[cur]

InitServers ==
    /\ family \in [Devices -> Families]
    /\ model = [d \in Devices |-> InitialModel(family[d])]
    /\ atess_parameters = AtessParameters
    /\ all_parameters = [d \in Devices |-> <<>>]
    /\ holding_addr_extent = [d \in Devices |-> <<>>]
    /\ input_addr_extent = [d \in Devices |-> <<>>]
    /\ holding_batches = [d \in Devices |-> <<>>]
    /\ input_batches = [d \in Devices |-> <<>>]
    /\ holding_state = [d \in Devices |-> <<>>]
    /\ input_state = [d \in Devices |-> <<>>]
    /\ gen = 0
    /\ wire = [t \in Threads |-> <<>>]

InitMain ==
    /\ pc = "idle"
    /\ cur = 0
    /\ batch_i = 0
    /\ cycles = 0
    /\ attempts = [d \in Devices |-> 0]
    /\ last_error = "none"
    /\ connect_log = [d \in Devices |-> <<>>]
    /\ cycle_pre = <<>>
    /\ cycle_reads = <<>>
    /\ published = [d \in Devices |-> {}]

InitMqtt ==
    /\ mqtt_started = FALSE
    /\ pc_mqtt = "idle"
    /\ msg = <<>>
    /\ attempt = 0
    /\ msgs = 0
    /\ mqtt_log = <<>>
    /\ mqtt_result = "none"
    /\ mqtt_pub = <<>>

InitFn == fn_in = <<>> /\ fn_out = <<>>

InitExit ==
    /\ atexit_registered = FALSE
    /\ exit_log = <<>>
    /\ announced = [d \in Devices |-> <<>>]

\* The pure-function specifications leave the program state out.
NoProgram ==
    /\ family = [d \in Devices |-> KEHUA]
    /\ model = [d \in Devices |-> InitialModel(KEHUA)]
    /\ atess_parameters = AtessParameters
    /\ all_parameters = [d \in Devices |-> <<>>]
    /\ holding_addr_extent = [d \in Devices |-> <<>>]
    /\ input_addr_extent = [d \in Devices |-> <<>>]
    /\ holding_batches = [d \in Devices |-> <<>>]
    /\ input_batches = [d \in Devices |-> <<>>]
    /\ holding_state = [d \in Devices |-> <<>>]
    /\ input_state = [d \in Devices |-> <<>>]
    /\ gen = 0
    /\ wire = [t \in Threads |-> <<>>]
    /\ app_phase = "none"
    /\ InitMain
    /\ InitMqtt
    /\ InitExit

program_vars == <<family, model, atess_parameters, all_parameters,
                  holding_addr_extent, input_addr_extent, holding_batches,
                  input_batches, holding_state, input_state, gen, wire,
                  app_phase, pc, cur, batch_i, cycles, attempts, last_error,
                  connect_log, cycle_pre, cycle_reads, published,
                  mqtt_started, pc_mqtt, msg, attempt, msgs, mqtt_log,
                  mqtt_result, mqtt_pub, atexit_registered, exit_log, announced>>

-----------------------------------------------------------------------------
(* Server.connect (server.py:382-396), one action per lifecycle step.  The *)
(* main thread is at "c_<step>" when <step> is the next thing it does, and *)
(* at "c_done" when the call has returned or raised (last_error).          *)

\* What connect_log keeps of a step of the current attempt: its name and
\* whether it succeeded.
Log(step, ok) ==
    connect_log' = [connect_log EXCEPT ![Cur] = Append(@, [step |-> step, ok |-> ok])]

ConnectRaises(e) ==
    /\ pc' = "c_done"
    /\ last_error' = e

\* Server.is_available default / overrides: kehua_inverter.py:202-203,
\* atess_inverter.py:40-42.
ProbeName(f) == IF f = KEHUA THEN "Device Model" ELSE "Device On/Off"

\* read_model: kehua_inverter.py:194-195, atess_inverter.py:64-65.
ModelRegisterName(f) == IF f = KEHUA THEN "Device Model" ELSE "Device Type Code"

\* The direct read of one parameter: server.py:300-313 (read_registers) and
\* server.py:198-206 (is_available).
ParamReadRequest(d, name) ==
    ReadRequest(Param(name).addr, Param(name).count, ModbusId(d),
                Param(name).register_type)

\* lines 384-388: self.connected_client.connect(); ConnectionError re-raised.
ClientConnect(ok) ==
    /\ pc = "c_client"
    /\ Log("client_connect", ok)
    /\ IF ok THEN pc' = "c_probe" /\ UNCHANGED last_error
       ELSE ConnectRaises("ConnectionError")
    /\ UNCHANGED <<fn_vars, exit_vars, server_vars, gen, wire, mqtt_vars, app_phase, cur,
                   batch_i, cycles, attempts, cycle_pre, cycle_reads, published>>

\* line 390 and server.py:192-206: the probe read is issued.
IsAvailableSend ==
    /\ pc = "c_probe"
    /\ wire' = [wire EXCEPT !["main"] = ParamReadRequest(Cur, ProbeName(family[Cur]))]
    /\ pc' = "c_probe_wait"
    /\ UNCHANGED <<fn_vars, exit_vars, server_vars, gen, mqtt_vars, app_phase, cur,
                   batch_i, cycles, attempts, last_error, connect_log,
                   cycle_pre, cycle_reads, published>>

\* A connect that goes on whatever the probe said.
AfterProbe_ignored(available) == "c_model"

\* lines 390-392: not available raises ConnectionError.
AfterProbe(available) == IF available THEN "c_model" ELSE "c_done"

\* What the probe read can end with: a result, an error result, or an
\* exception of the transport (ModbusException) or of the connection (OSError).
ProbeOutcomes == {"ok", "error", "ModbusException", "OSError"}

\* An is_available without its except clauses.
IsAvailable_uncaught(outcome) ==
    IF outcome \in {"ModbusException", "OSError"} THEN Err(outcome)
    ELSE Ok(outcome = "ok")

\* server.py:204-218: the value is_available returns.
IsAvailable(outcome) ==
    IF outcome \in {"ModbusException", "OSError"} THEN Ok(FALSE)
    ELSE IF outcome = "error" THEN Ok(FALSE)
    ELSE Ok(TRUE)

\* server.py:207-218 and 390-392: the probe's answer.
IsAvailableRecv(outcome) ==
    /\ pc = "c_probe_wait"
    /\ LET r == IsAvailable(outcome)
       IN  /\ connect_log' = [connect_log EXCEPT ![Cur] =
                 Append(@, [step |-> "is_available",
                            ok |-> (r.error = "none" /\ r.val),
                            outcome |-> outcome, raised |-> r.error])]
           /\ IF r.error # "none" THEN ConnectRaises(r.error)
              ELSE /\ pc' = AfterProbe(r.val)
                   /\ last_error' = IF AfterProbe(r.val) = "c_done"
                                    THEN "ConnectionError" ELSE last_error
    /\ wire' = [wire EXCEPT !["main"] = <<>>]
    /\ UNCHANGED <<fn_vars, exit_vars, server_vars, gen, mqtt_vars, app_phase, cur,
                   batch_i, cycles, attempts, cycle_pre, cycle_reads,
                   published>>

\* line 393, server.py:179-185: set_model reads the model register.
ReadModelSend ==
    /\ pc = "c_model"
    /\ wire' = [wire EXCEPT !["main"] =
                   ParamReadRequest(Cur, ModelRegisterName(family[Cur]))]
    /\ pc' = "c_model_wait"
    /\ UNCHANGED <<fn_vars, exit_vars, server_vars, gen, mqtt_vars, app_phase, cur,
                   batch_i, cycles, attempts, last_error, connect_log,
                   cycle_pre, cycle_reads, published>>

\* A set_model without the check of supported_models.
AfterSetModel_unchecked(supported) == "c_setup"

\* server.py:188-190: a model that is not supported raises ValueError.
AfterSetModel(supported) == IF supported THEN "c_setup" ELSE "c_done"

\* server.py:315-317 (error result), atess_inverter.py:67-71 (no name for
\* the code), server.py:185-190 (self.model is assigned, then checked).
ReadModelRecv(outcome, answer) ==
    /\ pc = "c_model_wait"
    /\ answer \in ModelAnswers(family[Cur])
    /\ Log("set_model", outcome = "ok" /\ answer \in SupportedModels(family[Cur]))
    /\ wire' = [wire EXCEPT !["main"] = <<>>]
    /\ IF outcome # "ok"
       THEN ConnectRaises("Exception") /\ UNCHANGED model
       ELSE IF answer = "unmapped"
       THEN ConnectRaises("ValueError") /\ UNCHANGED model
       ELSE /\ model' = [model EXCEPT ![Cur] = answer]
            /\ pc' = AfterSetModel(answer \in SupportedModels(family[Cur]))
            /\ last_error' =
                  IF AfterSetModel(answer \in SupportedModels(family[Cur])) = "c_done"
                  THEN "ValueError" ELSE last_error
    /\ UNCHANGED <<fn_vars, exit_vars, family, plan_vars, state_vars, gen, mqtt_vars,
                   app_phase, cur, batch_i, cycles, attempts, cycle_pre,
                   cycle_reads, published>>

\* "PCS" in self.model / "PBD" in self.model, over the supported models.
IsPCS(m) == m \in {"PCS150", "PCS500"}
IsPBD(m) == m \in {"PBD250"}

\* line 394: kehua_inverter.py:197-200 (pass), atess_inverter.py:73-84
\* (update() of the shared dict).
SetupValidRegistersForModel ==
    /\ pc = "c_setup"
    /\ Log("setup_valid_registers_for_model", TRUE)
    /\ atess_parameters' =
          IF family[Cur] # ATESS THEN atess_parameters
          ELSE IF IsPCS(model[Cur]) THEN atess_parameters \cup PCSParameters
          ELSE IF IsPBD(model[Cur])
               THEN atess_parameters \cup NotPCSParameters \cup PBDParameters
          ELSE atess_parameters \cup NotPCSParameters
    /\ pc' = "c_extent"
    /\ UNCHANGED <<fn_vars, exit_vars, family, model, all_parameters, holding_addr_extent,
                   input_addr_extent, holding_batches, input_batches,
                   state_vars, gen, wire, mqtt_vars, app_phase, cur, batch_i,
                   cycles, attempts, last_error, cycle_pre, cycle_reads,
                   published>>

\* line 395: find_register_extent over self.all_parameters (which the
\* access caches).
FindRegisterExtentStep ==
    /\ pc = "c_extent"
    /\ Log("find_register_extent",
           FindRegisterExtent(Entries(AllParameters(Cur))).error = "none")
    /\ all_parameters' = [all_parameters EXCEPT ![Cur] = <<AllParameters(Cur)>>]
    /\ LET r == FindRegisterExtent(Entries(AllParameters(Cur)))
       IN  /\ holding_addr_extent' =
                 IF r.holding # <<>>
                 THEN [holding_addr_extent EXCEPT ![Cur] = r.holding]
                 ELSE holding_addr_extent
           /\ input_addr_extent' =
                 IF r.input # <<>>
                 THEN [input_addr_extent EXCEPT ![Cur] = r.input]
                 ELSE input_addr_extent
           /\ IF r.error = "none" THEN pc' = "c_batches" /\ UNCHANGED last_error
              ELSE ConnectRaises(r.error)
    /\ UNCHANGED <<fn_vars, exit_vars, family, model, atess_parameters, holding_batches,
                   input_batches, state_vars, gen, wire, mqtt_vars, app_phase,
                   cur, batch_i, cycles, attempts, cycle_pre, cycle_reads,
                   published>>

\* line 396: create_batches() with the default batch size; connect returns.
CreateBatchesStep ==
    /\ pc = "c_batches"
    /\ Log("create_batches", TRUE)
    /\ holding_batches' = [holding_batches EXCEPT ![Cur] =
                              CreateBatches(holding_addr_extent[Cur], BatchSize)]
    /\ input_batches' = [input_batches EXCEPT ![Cur] =
                            CreateBatches(input_addr_extent[Cur], BatchSize)]
    /\ pc' = "c_done"
    /\ last_error' = "none"
    /\ UNCHANGED <<fn_vars, exit_vars, family, model, atess_parameters, all_parameters,
                   holding_addr_extent, input_addr_extent, state_vars, gen,
                   wire, mqtt_vars, app_phase, cur, batch_i, cycles, attempts,
                   cycle_pre, cycle_reads, published>>

ConnectStep ==
    \/ \E ok \in BOOLEAN : ClientConnect(ok)
    \/ IsAvailableSend
    \/ \E outcome \in ProbeOutcomes : IsAvailableRecv(outcome)
    \/ ReadModelSend
    \/ \E outcome \in {"ok", "error"}, answer \in ModelAnswers(KEHUA) \cup ModelAnswers(ATESS) :
          ReadModelRecv(outcome, answer)
    \/ SetupValidRegistersForModel
    \/ FindRegisterExtentStep
    \/ CreateBatchesStep

-----------------------------------------------------------------------------
(* A caller of the Server API: connect attempts on any device, any number  *)
(* of times (specification SpecLifecycle).                                 *)

ApiConnect(d) ==
    /\ app_phase = "api"
    /\ pc = "idle"
    /\ fn_out = <<>>
    /\ attempts[d] < MaxConnects
    /\ attempts' = [attempts EXCEPT ![d] = @ + 1]
    /\ cur' = Index(d)
    /\ connect_log' = [connect_log EXCEPT ![d] = <<>>]
    /\ last_error' = "none"
    /\ pc' = "c_client"
    /\ UNCHANGED <<fn_vars, exit_vars, server_vars, gen, wire, mqtt_vars, app_phase,
                   batch_i, cycles, cycle_pre, cycle_reads, published>>

\* The call has returned or raised to the caller.
ApiReturn ==
    /\ app_phase = "api"
    /\ pc = "c_done"
    /\ pc' = "idle"
    /\ UNCHANGED <<fn_vars, exit_vars, server_vars, gen, wire, mqtt_vars, app_phase, cur,
                   batch_i, cycles, attempts, last_error, connect_log,
                   cycle_pre, cycle_reads, published>>

InitLifecycle ==
    /\ InitFn /\ InitServers /\ InitMain /\ InitMqtt /\ InitExit
    /\ app_phase = "api"

NextLifecycle ==
    \/ \E d \in Devices : ApiConnect(d)
    \/ ConnectStep
    \/ ApiReturn

SpecLifecycle == InitLifecycle /\ [][NextLifecycle]_vars

-----------------------------------------------------------------------------
(* App.connect (app.py:84-109), the device part, and the start of the MQTT *)
(* network thread.  An exception leaves App.connect and ends the process.  *)

Crash(e) ==
    /\ pc' = "crashed"
    /\ app_phase' = "crashed"
    /\ last_error' = e

\* lines 85-86: client.connect() for every Transport Client.
AppConnectClients(ok) ==
    /\ app_phase = "connect"
    /\ pc = "app_start"
    /\ IF ok THEN pc' = "idle" /\ UNCHANGED <<app_phase, last_error>>
       ELSE Crash("ConnectionError")
    /\ UNCHANGED <<fn_vars, exit_vars, server_vars, gen, wire, mqtt_vars, cur, batch_i,
                   cycles, attempts, connect_log, cycle_pre, cycle_reads,
                   published>>

\* lines 88-89: server.connect() for the next server of self.servers.
AppConnectServer ==
    /\ app_phase = "connect"
    /\ pc = "idle"
    /\ cur < Len(Servers)
    /\ cur' = cur + 1
    /\ attempts' = [attempts EXCEPT ![Servers[cur + 1]] = @ + 1]
    /\ connect_log' = [connect_log EXCEPT ![Servers[cur + 1]] = <<>>]
    /\ pc' = "c_client"
    /\ UNCHANGED <<fn_vars, exit_vars, server_vars, gen, wire, mqtt_vars, app_phase,
                   batch_i, cycles, last_error, cycle_pre, cycle_reads,
                   published>>

\* An App.connect that goes on to its next statement after a server.connect()
\* that raised.
AppConnectReturn_ignoresError ==
    /\ app_phase = "connect"
    /\ pc = "c_done"
    /\ pc' = "idle"
    /\ last_error' = "none"
    /\ UNCHANGED <<fn_vars, exit_vars, server_vars, gen, wire, mqtt_vars,
                   app_phase, cur, batch_i, cycles, attempts, connect_log,
                   cycle_pre, cycle_reads, published>>

\* server.connect() has returned, or raised out of App.connect.
AppConnectReturn ==
    /\ app_phase = "connect"
    /\ pc = "c_done"
    /\ IF last_error = "none" THEN pc' = "idle" /\ UNCHANGED <<app_phase, last_error>>
       ELSE Crash(last_error)
    /\ UNCHANGED <<fn_vars, exit_vars, server_vars, gen, wire, mqtt_vars, cur, batch_i,
                   cycles, attempts, connect_log, cycle_pre, cycle_reads,
                   published>>

\* lines 92-105: the MqttClient is set up, exit_handler is registered
\* with atexit (101-102) and loop_start() starts the network thread; then
\* App.loop() is entered (lines 111-118).  The discovery step that lies
\* between the two in App.connect (lines 107-109) is not part of this
\* action: AppMqttSetup and PublishDiscoveryTopics model it.
AppLoopStart ==
    /\ app_phase = "connect"
    /\ pc = "idle"
    /\ cur = Len(Servers)
    /\ atexit_registered' = TRUE
    /\ mqtt_started' = TRUE
    /\ app_phase' = "loop"
    /\ pc' = "loop_cycle"
    /\ UNCHANGED <<fn_vars, exit_log, announced, server_vars, gen, wire, pc_mqtt, msg, attempt,
                   msgs, mqtt_log, mqtt_result, mqtt_pub, cur, batch_i, cycles,
                   attempts, last_error, connect_log, cycle_pre, cycle_reads,
                   published>>

-----------------------------------------------------------------------------
(* Process exit.  An exception that leaves App.connect or App.loop ends    *)
(* the interpreter, which runs the functions registered with atexit.       *)

ExitEvent(ev, target) == [ev |-> ev, target |-> target]

\* app.py:29-40 exit_handler(servers, modbus_clients, mqtt_client):
\* publish_availability(False, server) for each server
\* (modbus_mqtt.py:175-179, "offline" retained), close() of each
\* Transport Client, then mqtt_client.loop_stop().
ExitHandler ==
    [i \in 1..Len(Servers) |-> ExitEvent("publish_offline", Servers[i])]
      \o <<ExitEvent("close", "client"), ExitEvent("loop_stop", "mqtt_client")>>

\* The interpreter exits after the uncaught exception: the registered
\* exit handler runs, if there is one.
ProcessExit ==
    /\ app_phase = "crashed"
    /\ exit_log = <<>>
    /\ exit_log' = (IF atexit_registered THEN ExitHandler ELSE <<>>)
                      \o <<ExitEvent("exit", "process")>>
    /\ UNCHANGED <<fn_vars, atexit_registered, announced, server_vars, gen,
                   wire, main_vars, mqtt_vars>>

-----------------------------------------------------------------------------
(* App.loop (app.py:111-146) and Server.read_batches (server.py:220-247).  *)
(* Between two transport requests the thread runs without being observed,  *)
(* so an action is: take the response of the pending request and run on    *)
(* to the next request.                                                    *)

\* lines 118-119, and 144-146 for a later cycle: the next pass of while True.
LoopCycle ==
    /\ app_phase = "loop"
    /\ pc = "loop_cycle"
    /\ cycles < MaxCycles
    /\ cycles' = cycles + 1
    /\ cur' = 1
    /\ pc' = "rb_begin"
    /\ UNCHANGED <<fn_vars, exit_vars, server_vars, gen, wire, mqtt_vars, app_phase,
                   batch_i, attempts, last_error, connect_log, cycle_pre,
                   cycle_reads, published>>

\* A read cycle that keeps what the buffer held.
ReadBatchesReset_keep(old) == old

\* server.py:224-225: self.holding_state = [] ; self.input_state = []
ReadBatchesReset(old) == <<>>

\* A read of BatchSize words whatever the batch.
BatchReadRequest_fullWidth(d, rt, batch) ==
    ReadRequest(batch[1], BatchSize, ModbusId(d), rt)

\* server.py:229-230 and 240-241: the read of one batch.
BatchReadRequest(d, rt, batch) ==
    ReadRequest(batch[1], BatchWidth(batch), ModbusId(d), rt)

\* The request read_batches would issue after batch i of category rt had
\* it been answered (<<>>: none, the call would return).
NextBatchRequest(d, rt, i) ==
    IF rt = HOLDING_REGISTER
    THEN (IF i < Len(holding_batches[d])
          THEN BatchReadRequest(d, HOLDING_REGISTER, holding_batches[d][i + 1])
          ELSE BatchReadRequest(d, INPUT_REGISTER, input_batches[d][1]))
    ELSE (IF i < Len(input_batches[d])
          THEN BatchReadRequest(d, INPUT_REGISTER, input_batches[d][i + 1])
          ELSE <<>>)

\* A read_batches that logs the error result and goes on with the next batch.
AfterBatchError_continues(next) == next

\* server.py:232-234 and 243-245: the error result raises; what is on the
\* wire afterwards.
AfterBatchError(next) == <<>>

\* What a response adds to cycle_reads: the request and the generation of
\* the register contents it was answered from.
ReadRecord(req) == [request |-> req, gen |-> gen]

WordsOf(rec) ==
    ReadWords(rec.request.slave, rec.request.register_type, rec.request.addr,
              rec.request.count, rec.gen)

\* app.py:121 and server.py:224-230: read_batches begins.
ReadBatchesBegin ==
    /\ pc = "rb_begin"
    /\ cycle_pre' = <<holding_state[Cur], input_state[Cur]>>
    /\ cycle_reads' = <<>>
    /\ holding_state' = [holding_state EXCEPT ![Cur] = ReadBatchesReset(@)]
    /\ input_state' = [input_state EXCEPT ![Cur] = ReadBatchesReset(@)]
    /\ batch_i' = 1
    /\ wire' = [wire EXCEPT !["main"] =
                   BatchReadRequest(Cur, HOLDING_REGISTER, holding_batches[Cur][1])]
    /\ pc' = "rb_holding"
    /\ UNCHANGED <<fn_vars, exit_vars, family, model, plan_vars, gen, mqtt_vars,
                   app_phase, cur, cycles, attempts, last_error, connect_log,
                   published>>

\* server.py:232-236, then the next request (line 229 or 240).
HoldingBatchRecv(outcome) ==
    /\ pc = "rb_holding"
    /\ IF outcome # "ok"
       THEN /\ Crash("Exception")
            /\ wire' = [wire EXCEPT !["main"] =
                  AfterBatchError(NextBatchRequest(Cur, HOLDING_REGISTER, batch_i))]
            /\ UNCHANGED <<holding_state, cycle_reads, batch_i>>
       ELSE /\ holding_state' = [holding_state EXCEPT ![Cur] =
                                    @ \o WordsOf(ReadRecord(wire["main"]))]
            /\ cycle_reads' = Append(cycle_reads, ReadRecord(wire["main"]))
            /\ IF batch_i < Len(holding_batches[Cur])
               THEN /\ batch_i' = batch_i + 1
                    /\ wire' = [wire EXCEPT !["main"] =
                          BatchReadRequest(Cur, HOLDING_REGISTER,
                                           holding_batches[Cur][batch_i + 1])]
                    /\ pc' = "rb_holding"
               ELSE /\ batch_i' = 1
                    /\ wire' = [wire EXCEPT !["main"] =
                          BatchReadRequest(Cur, INPUT_REGISTER,
                                           input_batches[Cur][1])]
                    /\ pc' = "rb_input"
            /\ UNCHANGED <<app_phase, last_error>>
    /\ UNCHANGED <<fn_vars, exit_vars, family, model, plan_vars, input_state, gen,
                   mqtt_vars, cur, cycles, attempts, connect_log, cycle_pre,
                   published>>

\* server.py:243-247, then the next request or the end of read_batches.
InputBatchRecv(outcome) ==
    /\ pc = "rb_input"
    /\ IF outcome # "ok"
       THEN /\ Crash("Exception")
            /\ wire' = [wire EXCEPT !["main"] =
                  AfterBatchError(NextBatchRequest(Cur, INPUT_REGISTER, batch_i))]
            /\ UNCHANGED <<input_state, cycle_reads, batch_i>>
       ELSE /\ input_state' = [input_state EXCEPT ![Cur] =
                                  @ \o WordsOf(ReadRecord(wire["main"]))]
            /\ cycle_reads' = Append(cycle_reads, ReadRecord(wire["main"]))
            /\ IF batch_i < Len(input_batches[Cur])
               THEN /\ batch_i' = batch_i + 1
                    /\ wire' = [wire EXCEPT !["main"] =
                          BatchReadRequest(Cur, INPUT_REGISTER,
                                           input_batches[Cur][batch_i + 1])]
                    /\ pc' = "rb_input"
               ELSE /\ batch_i' = 0
                    /\ wire' = [wire EXCEPT !["main"] = <<>>]
                    /\ pc' = "publish"
            /\ UNCHANGED <<app_phase, last_error>>
    /\ UNCHANGED <<fn_vars, exit_vars, family, model, plan_vars, holding_state, gen,
                   mqtt_vars, cur, cycles, attempts, connect_log, cycle_pre,
                   published>>

KeysInOrder(keys) == SelectSeq(KeyOrder, LAMBDA n : n \in keys)

\* app.py:125 and 133: the write parameters, then the read parameters.
PublishOrder(d) == KeysInOrder(WriteParameters(d)) \o KeysInOrder(Parameters(d))

\* The first name whose read_from_state raises (0: none does).
FirstFailure(d) ==
    LET names == PublishOrder(d)
        bad == { i \in 1..Len(names) : ReadFromState(d, names[i]).error # "none" }
    IN  IF bad = {} THEN 0 ELSE SetMin(bad)

\* app.py:125-137: every parameter is read from the state and published
\* (modbus_mqtt.py:170-173); an exception of read_from_state leaves the loop.
PublishServer ==
    /\ pc = "publish"
    /\ LET names == PublishOrder(Cur)
           k     == FirstFailure(Cur)
           upto  == IF k = 0 THEN Len(names) ELSE k - 1
       IN  /\ published' = [published EXCEPT ![Cur] =
                 { <<names[i], ReadFromState(Cur, names[i]).val>> : i \in 1..upto }]
           /\ IF k # 0 THEN Crash(ReadFromState(Cur, names[k]).error) /\ UNCHANGED cur
              ELSE /\ UNCHANGED <<app_phase, last_error>>
                   /\ IF cur < Len(Servers)
                      THEN cur' = cur + 1 /\ pc' = "rb_begin"
                      ELSE cur' = cur /\ pc' = "loop_cycle"
    /\ UNCHANGED <<fn_vars, exit_vars, server_vars, gen, wire, mqtt_vars, batch_i, cycles,
                   attempts, connect_log, cycle_pre, cycle_reads>>

\* The field devices' register contents change.
RegistersChange ==
    /\ app_phase = "loop"
    /\ gen < MaxGen
    /\ gen' = gen + 1
    /\ UNCHANGED <<fn_vars, exit_vars, server_vars, wire, main_vars, mqtt_vars>>

-----------------------------------------------------------------------------
(* MqttClient.message_handler (modbus_mqtt.py:58-80) with                  *)
(* Server.write_registers (server.py:333-380) and Server.read_registers    *)
(* (server.py:285-331), run by the MQTT network thread.                    *)

\* helpers.with_retries (helpers.py is not part of the sources): the call
\* is made up to 3 times and the exception of the last one is re-raised.
WithRetriesAttempts == 3

CommandSlugs == {"time_setting_hour"}

\* msg.topic.split('/')[1]: the name of a configured server, or a name no
\* server has.
TopicDevices == Devices \cup {"d9"}

\* modbus_mqtt.py:63-71: s is left bound to the last server of the list,
\* so "if s is None" does not fire; server was never assigned, and its
\* first use raises UnboundLocalError.
NoServerMatches == "UnboundLocalError"

Payloads == {"5"}

\* server.py:356: int(value, base=0) of the payload text (a Python integer
\* literal; anything else raises ValueError).
ParseInt(payload) ==
    CASE payload = "5"    -> Ok(PyInt(5))
      [] payload = "50"   -> Ok(PyInt(50))
      [] payload = "0x10" -> Ok(PyInt(16))
      [] OTHER            -> Err("ValueError")

\* server.py:358: float(value) of the payload text.
ParseFloat(payload) ==
    CASE payload = "5"   -> Ok(PyFloat(5, 1))
      [] payload = "50"  -> Ok(PyFloat(50, 1))
      [] payload = "2.5" -> Ok(PyFloat(25, 10))
      [] OTHER           -> Err("ValueError")

\* server.py:359-360: value /= multiplier unless the multiplier is 1 (the
\* quotients of the sample values by 0.1 are exact in floating point).
DividedBy(value, multiplier) ==
    IF multiplier = "0.1" THEN PyFloat(10 * value.n, value.den) ELSE value

\* A text handed to the codec as it came.
PyStr(payload) == [text |-> payload]

\* A write_registers that divides a switch's integer by the multiplier too.
ValueForCodec_scalesSwitch(param, payload) ==
    IF param.dtype # UTF8 \/ param.ha_entity_type = "switch"
    THEN (LET x == IF param.ha_entity_type = "switch" THEN ParseInt(payload)
                   ELSE ParseFloat(payload)
          IN  IF x.error # "none" THEN x
              ELSE Ok(DividedBy(x.val, param.multiplier)))
    ELSE Ok(PyStr(payload))

\* server.py:355-360: the value handed to the codec, or what the parse
\* raised.
ValueForCodec(param, payload) ==
    IF param.ha_entity_type = "switch" THEN ParseInt(payload)
    ELSE IF param.dtype # UTF8
    THEN (LET x == ParseFloat(payload)
          IN  IF x.error # "none" THEN x
              ELSE Ok(DividedBy(x.val, param.multiplier)))
    ELSE Ok(PyStr(payload))

\* server.py:355-362: values = self._encoded(value, dtype)
EncodedValue(f, param, payload) ==
    LET value == ValueForCodec(param, payload)
    IN  IF value.error # "none" THEN value
        ELSE Encoded(f, value.val, param.dtype)

Running == app_phase = "loop"

MqttEnds(result) ==
    /\ pc_mqtt' = "idle"
    /\ mqtt_result' = result

\* A handler whose write_registers lets the last ModbusException through.
AfterWriteFailure_raise == "raise"

\* server.py:373-375: except ModbusException: log and return; the handler
\* goes on with its next statement.
AfterWriteFailure == "return"

\* modbus_mqtt.py:62-71 and server.py:341-372: the message is routed, the
\* value encoded and the first write issued.
MessageArrives(d, slug, payload) ==
    /\ Running /\ mqtt_started
    /\ pc_mqtt = "idle"
    /\ msgs < MaxMsgs
    /\ msgs' = msgs + 1
    /\ msg' = [dev |-> d, slug |-> slug, payload |-> payload]
    /\ mqtt_log' = <<>>
    /\ mqtt_pub' = <<>>
    /\ IF d \notin Devices
       THEN MqttEnds(NoServerMatches) /\ UNCHANGED <<wire, attempt>>
       ELSE IF slug \notin WriteSlugs(d)
       THEN MqttEnds("KeyError") /\ UNCHANGED <<wire, attempt>>
       ELSE LET param == Param(SlugToName(d, slug))
                enc   == EncodedValue(family[d], param, payload)
            IN  IF enc.error # "none"
                THEN MqttEnds(enc.error) /\ UNCHANGED <<wire, attempt>>
                ELSE /\ attempt' = 1
                     /\ wire' = [wire EXCEPT !["mqtt"] =
                           WriteRequest(enc.val, param.addr, ModbusId(d),
                                        param.register_type)]
                     /\ pc_mqtt' = "w_wait"
                     /\ mqtt_result' = "running"
    /\ UNCHANGED <<fn_vars, exit_vars, server_vars, gen, main_vars, mqtt_started>>

LogOp(outcome) == mqtt_log' = Append(mqtt_log, [request |-> wire["mqtt"],
                                                outcome |-> outcome, gen |-> gen])

\* A read-back of two words whatever the parameter.
ReadBackRequest_wide(d, name) ==
    ReadRequest(Param(name).addr, Param(name).count + 1, ModbusId(d),
                Param(name).register_type)

\* modbus_mqtt.py:77 and server.py:300-313: read_registers(register_name).
ReadBackRequest(d, name) ==
    ReadRequest(Param(name).addr, Param(name).count, ModbusId(d),
                Param(name).register_type)

\* The write's outcome: with_retries (server.py:368-375), then the handler
\* goes on to read_registers (modbus_mqtt.py:74-77).
WriteRecv(outcome) ==
    /\ Running
    /\ pc_mqtt = "w_wait"
    /\ LogOp(outcome)
    /\ LET readback == ReadBackRequest(msg.dev, SlugToName(msg.dev, msg.slug))
       IN  IF outcome = "ok"
           THEN /\ wire' = [wire EXCEPT !["mqtt"] = readback]
                /\ pc_mqtt' = "r_wait"
                /\ UNCHANGED <<attempt, mqtt_result>>
           ELSE IF attempt < WithRetriesAttempts
           THEN /\ attempt' = attempt + 1
                /\ UNCHANGED <<wire, pc_mqtt, mqtt_result>>
           ELSE IF AfterWriteFailure = "return"
           THEN /\ wire' = [wire EXCEPT !["mqtt"] = readback]
                /\ pc_mqtt' = "r_wait"
                /\ UNCHANGED <<attempt, mqtt_result>>
           ELSE /\ wire' = [wire EXCEPT !["mqtt"] = <<>>]
                /\ MqttEnds("ModbusException")
                /\ UNCHANGED attempt
    /\ UNCHANGED <<fn_vars, exit_vars, server_vars, gen, main_vars, mqtt_started, msg,
                   msgs, mqtt_pub>>

\* The value a handler would take from the polled state.
ReadBackValue_fromState(d, name, words) == ReadFromState(d, name)

\* server.py:319-331: the read-back words decoded, scaled and rounded.
ReadBackValue(d, name, words) ==
    ValueOf(family[d], Param(name), DeviceClassOf(name), words,
            RoundingOfRead(UnitOf(name),
                           DeviceClassToRounding(DeviceClassOf(name))))

\* server.py:315-331 and modbus_mqtt.py:77-80: the read-back's answer is
\* decoded and published, or the error result raises.
ReadBackRecv(outcome) ==
    /\ Running
    /\ pc_mqtt = "r_wait"
    /\ LogOp(outcome)
    /\ wire' = [wire EXCEPT !["mqtt"] = <<>>]
    /\ LET name == SlugToName(msg.dev, msg.slug)
           req  == wire["mqtt"]
           v    == ReadBackValue(msg.dev, name,
                      ReadWords(req.slave, req.register_type, req.addr,
                                req.count, gen))
       IN  IF outcome # "ok" THEN MqttEnds("Exception") /\ UNCHANGED mqtt_pub
           ELSE IF v.error # "none" THEN MqttEnds(v.error) /\ UNCHANGED mqtt_pub
           ELSE /\ mqtt_pub' = [dev |-> msg.dev, slug |-> msg.slug, value |-> v.val]
                /\ MqttEnds("returned")
    /\ UNCHANGED <<fn_vars, exit_vars, server_vars, gen, main_vars, mqtt_started, msg,
                   attempt, msgs>>

-----------------------------------------------------------------------------
(* Specification Spec: the program as app.py runs it - App.connect, then   *)
(* App.loop on the main thread and message_handler on the MQTT thread.     *)

Init ==
    /\ InitFn /\ InitServers /\ InitMqtt /\ InitExit
    /\ app_phase = "connect"
    /\ pc = "app_start"
    /\ cur = 0
    /\ batch_i = 0
    /\ cycles = 0
    /\ attempts = [d \in Devices |-> 0]
    /\ last_error = "none"
    /\ connect_log = [d \in Devices |-> <<>>]
    /\ cycle_pre = <<>>
    /\ cycle_reads = <<>>
    /\ published = [d \in Devices |-> {}]

Next ==
    \/ \E ok \in BOOLEAN : AppConnectClients(ok)
    \/ AppConnectServer
    \/ ConnectStep
    \/ AppConnectReturn
    \/ AppLoopStart
    \/ LoopCycle
    \/ ReadBatchesBegin
    \/ \E outcome \in {"ok", "error"} : HoldingBatchRecv(outcome)
    \/ \E outcome \in {"ok", "error"} : InputBatchRecv(outcome)
    \/ PublishServer
    \/ ProcessExit
    \/ RegistersChange
    \/ \E d \in TopicDevices, slug \in CommandSlugs, payload \in Payloads :
          MessageArrives(d, slug, payload)
    \/ \E outcome \in {"ok", "ModbusException"} : WriteRecv(outcome)
    \/ \E outcome \in {"ok", "error"} : ReadBackRecv(outcome)

Spec == Init /\ [][Next]_vars

-----------------------------------------------------------------------------
(* Specification SpecApi: a caller of the Server API that, between connect *)
(* attempts, calls read_from_state, read_registers and write_registers     *)
(* with names and slugs the device defines and with ones it does not.      *)
(* fn_out holds what the call in progress returned or raised and the       *)
(* transport requests it issued, until the caller has taken it.            *)

ApiNames ==
    {"Unknown Parameter", "Device Model", "Battery Power", "Time Setting Hour"}

ApiSlugs == {"unknown_parameter", "time_setting_hour"}

\* server.py:285-331: read_registers(parameter_name) whose transport read
\* has the given outcome.
ReadRegisters(d, parameter_name, outcome) ==
    IF parameter_name \notin Parameters(d) \cup WriteParameters(d)
    THEN [result |-> UndefinedParameter, requests |-> <<>>]
    ELSE LET req == ReadBackRequest(d, parameter_name)
         IN  [result   |-> IF outcome # "ok" THEN Err("Exception")
                           ELSE ReadBackValue(d, parameter_name,
                                   ReadWords(req.slave, req.register_type,
                                             req.addr, req.count, gen)),
              requests |-> <<req>>]

\* server.py:344-380: write_registers from the parameter found on, with
\* transport writes that all have the given outcome: the value handed to
\* the codec, what the call returned or raised, and the requests issued.
WriteOf(f, param, payload, modbus_id, outcome) ==
    LET value == ValueForCodec(param, payload)
        enc   == EncodedValue(f, param, payload)
        req   == WriteRequest(enc.val, param.addr, modbus_id,
                              param.register_type)
    IN  IF enc.error # "none"
        THEN [value |-> value, result |-> enc, requests |-> <<>>]
        ELSE IF outcome = "ok"
        THEN [value |-> value, result |-> Ok("None"), requests |-> <<req>>]
        ELSE [value    |-> value,
              result   |-> IF AfterWriteFailure = "return" THEN Ok("None")
                           ELSE Err("ModbusException"),
              requests |-> [i \in 1..WithRetriesAttempts |-> req]]

\* server.py:333-380: write_registers(parameter_name_slug, value) whose
\* transport writes all have the given outcome.
WriteRegisters(d, slug, payload, outcome) ==
    IF slug \notin WriteSlugs(d)
    THEN [result |-> Err("KeyError"), requests |-> <<>>]        \* line 341
    ELSE WriteOf(family[d], Param(SlugToName(d, slug)), payload, ModbusId(d),
                 outcome)

ApiCall(op, d, name, r) ==
    /\ app_phase = "api"
    /\ pc = "idle"
    /\ fn_out = <<>>
    /\ fn_out' = <<[op |-> op, dev |-> d, name |-> name, result |-> r.result,
                    requests |-> r.requests]>>

\* The first access of all_parameters (line 250) fills its cache.
ApiReadFromState(d, name) ==
    /\ ApiCall("read_from_state", d, name,
               [result |-> ReadFromState(d, name), requests |-> <<>>])
    /\ all_parameters' = [all_parameters EXCEPT ![d] = <<AllParameters(d)>>]
    /\ UNCHANGED <<fn_in, exit_vars, family, model, atess_parameters, plan_vars,
                   state_vars, gen, wire, main_vars, mqtt_vars>>

ApiReadRegisters(d, name, outcome) ==
    /\ ApiCall("read_registers", d, name, ReadRegisters(d, name, outcome))
    /\ UNCHANGED <<fn_in, exit_vars, server_vars, gen, wire, main_vars,
                   mqtt_vars>>

ApiWriteRegisters(d, slug, payload, outcome) ==
    /\ ApiCall("write_registers", d, slug,
               WriteRegisters(d, slug, payload, outcome))
    /\ UNCHANGED <<fn_in, exit_vars, server_vars, gen, wire, main_vars,
                   mqtt_vars>>

\* The caller has taken the result.
ApiCallReturn ==
    /\ app_phase = "api"
    /\ fn_out # <<>>
    /\ fn_out' = <<>>
    /\ UNCHANGED <<fn_in, program_vars>>

InitApi == InitLifecycle

NextApi ==
    \/ \E d \in Devices : ApiConnect(d)
    \/ ConnectStep
    \/ ApiReturn
    \/ \E d \in Devices, name \in ApiNames : ApiReadFromState(d, name)
    \/ \E d \in Devices, name \in ApiNames, outcome \in {"ok", "error"} :
          ApiReadRegisters(d, name, outcome)
    \/ \E d \in Devices, slug \in ApiSlugs, payload \in Payloads,
          outcome \in {"ok", "ModbusException"} :
          ApiWriteRegisters(d, slug, payload, outcome)
    \/ ApiCallReturn

SpecApi == InitApi /\ [][NextApi]_vars

-----------------------------------------------------------------------------
(* Specification SpecExtent: find_register_extent applied to every dict of *)
(* at most MaxParams parameters.                                           *)

PlannerParams ==
    [addr : 1..MaxAddr, count : 1..MaxCount, register_type : RegisterTypes]

PlannerDicts == UNION { [1..n -> PlannerParams] : n \in 0..MaxParams }

InitExtent ==
    /\ fn_in \in PlannerDicts
    /\ fn_out = <<>>
    /\ NoProgram

ApplyFindRegisterExtent ==
    /\ fn_out = <<>>
    /\ fn_out' = <<FindRegisterExtent(fn_in)>>
    /\ UNCHANGED <<fn_in, program_vars>>

NextExtent == ApplyFindRegisterExtent

SpecExtent == InitExtent /\ [][NextExtent]_vars

-----------------------------------------------------------------------------
(* Specification SpecBatch: create_batches applied to every extent         *)
(* (lo, hi) with lo <= MaxLo and at most MaxWidth addresses.               *)

InitBatch ==
    /\ fn_in \in { <<lo, lo + w - 1>> : lo \in 1..MaxLo, w \in 1..MaxWidth }
    /\ fn_out = <<>>
    /\ NoProgram

ApplyCreateBatches ==
    /\ fn_out = <<>>
    /\ fn_out' = <<CreateBatches(fn_in, BatchSize)>>
    /\ UNCHANGED <<fn_in, program_vars>>

NextBatch == ApplyCreateBatches

SpecBatch == InitBatch /\ [][NextBatch]_vars

-----------------------------------------------------------------------------
(* Specification SpecCodec: one call of _decoded, of _encoded, or of       *)
(* _encoded on what _decoded returned, for either family, every data type  *)
(* the tables use, register lists of at most MaxRegs sample words and      *)
(* sample values.                                                          *)

MaxRegs == 2

I8H == "I8H"

DataTypes == {U16, I16, U32, I32, UTF8, I8H}

\* 0x0102, 0x0304, 0x1000, "AB", "CD", 0x777B, and the ends of the signed
\* and unsigned ranges.
CodecWords ==
    {0, 1, 258, 772, 4096, 16706, 17220, 30587, 32767, 32768, 65535}

CodecRegisters == UNION { [1..n -> CodecWords] : n \in 1..MaxRegs }

\* -1, -0.5, 0, 0.5, 1.5, 258, 65535, 65535.5, 65536 as ints and floats.
CodecValues ==
    { PyInt(n) : n \in {-1, 0, 258, 65535, 65536} }
      \cup { PyFloat(n, 10) : n \in {-10, -5, 0, 5, 15, 2580, 655350, 655355,
                                     655360} }

\* The int _decoded returned, as the argument of _encoded.
DecodedInt(val) == PyInt(val[1])

\* _encoded(_decoded(registers, dtype), dtype)
RoundTrip(f, registers, dtype) ==
    LET dec == Decoded(f, registers, dtype)
    IN  IF dec.error # "none" THEN dec
        ELSE Encoded(f, DecodedInt(dec.val), dtype)

CodecCalls ==
    [op : {"decode", "roundtrip"}, f : Families, dtype : DataTypes,
     registers : CodecRegisters, value : {PyInt(0)}]
      \cup [op : {"encode"}, f : Families, dtype : DataTypes,
            registers : {<<>>}, value : CodecValues]

InitCodec ==
    /\ fn_in \in CodecCalls
    /\ fn_out = <<>>
    /\ NoProgram

ApplyCodec ==
    /\ fn_out = <<>>
    /\ fn_out' =
          <<CASE fn_in.op = "decode" ->
                    Decoded(fn_in.f, fn_in.registers, fn_in.dtype)
              [] fn_in.op = "encode" ->
                    Encoded(fn_in.f, fn_in.value, fn_in.dtype)
              [] fn_in.op = "roundtrip" ->
                    RoundTrip(fn_in.f, fn_in.registers, fn_in.dtype)>>
    /\ UNCHANGED <<fn_in, program_vars>>

NextCodec == ApplyCodec

SpecCodec == InitCodec /\ [][NextCodec]_vars

-----------------------------------------------------------------------------
(* Specification SpecS16: the 16-bit signed decode of either family        *)
(* applied to every word.                                                  *)

InitS16 ==
    /\ fn_in \in [f : Families, word : 0..65535]
    /\ fn_out = <<>>
    /\ NoProgram

ApplyDecodeS16 ==
    /\ fn_out = <<>>
    /\ fn_out' = <<Decoded(fn_in.f, <<fn_in.word>>, I16)>>
    /\ UNCHANGED <<fn_in, program_vars>>

NextS16 == ApplyDecodeS16

SpecS16 == InitS16 /\ [][NextS16]_vars

-----------------------------------------------------------------------------
(* Specification SpecValue: the value read_from_state computes from the    *)
(* words of a parameter in the state buffer, next to the value             *)
(* read_registers computes from the same words read directly, for every    *)
(* parameter of the tables, a few register words and every precision       *)
(* of at most MaxDigits decimal places the device class may map to.        *)

MaxDigits == 2

\* Register words: zero, a tie and a non-tie in tenths, a negative I16.
ValueWords == {0, 5, 15, 123, 65535}

FamilyOfName(name) ==
    IF name \in KehuaInputRegisters \cup KehuaHoldingParameters
    THEN KEHUA ELSE ATESS

InitValue ==
    /\ fn_in \in [name : SeqToSet(KeyOrder), word : ValueWords,
                  class_digits : 0..MaxDigits]
    /\ fn_out = <<>>
    /\ NoProgram

\* What one read path returns and the precision it rounded to ("none"
\* where the value is not rounded).
ValueAndPrecision(name, words, ndigits) ==
    [result  |-> ValueOf(FamilyOfName(name), Param(name), DeviceClassOf(name),
                         words, ndigits),
     ndigits |-> IF RoundingApplies(Param(name), DeviceClassOf(name))
                 THEN ndigits ELSE "none"]

ApplyReadValue ==
    /\ fn_out = <<>>
    /\ LET name  == fn_in.name
           words == [i \in 1..Param(name).count |-> fn_in.word]
       IN  fn_out' =
             <<[from_state |->
                   ValueAndPrecision(name, words,
                       RoundingOfState(UnitOf(name), fn_in.class_digits)),
                from_read |->
                   ValueAndPrecision(name, words,
                       RoundingOfRead(UnitOf(name), fn_in.class_digits))]>>
    /\ UNCHANGED <<fn_in, program_vars>>

NextValue == ApplyReadValue

SpecValue == InitValue /\ [][NextValue]_vars

-----------------------------------------------------------------------------
(* Specification SpecWindow: a Kehua-coded device whose parameter dict is  *)
(* any dict of at most MaxParams parameters runs find_register_extent, a   *)
(* read_batches in which every read succeeds, and read_from_state of       *)
(* every parameter.                                                        *)

\* The dtype of a parameter of the given word count.
DtypeOfCount(count) ==
    CASE count = 1 -> U16
      [] count = 2 -> U32
      [] OTHER     -> UTF8

WindowParam(p) ==
    ParamRec(p.addr, p.count, DtypeOfCount(p.count), p.register_type, "1",
             "none")

\* server.py:224-241 with every read successful: the category's buffer
\* holds the words of the extent.
StateAfterReadBatches(addr_extent, rt) ==
    ReadWords(1, rt, addr_extent[1], addr_extent[2] - addr_extent[1] + 1, 0)

\* read_from_state of one parameter: its window and what is returned.
WindowRead(extents, p) ==
    LET addr_extent == IF p.register_type = HOLDING_REGISTER
                       THEN extents.holding ELSE extents.input
        state       == StateAfterReadBatches(addr_extent, p.register_type)
        result      == WindowOf(state, addr_extent, WindowParam(p))
    IN  [start     |-> p.addr - addr_extent[1],
         stop      |-> p.addr + p.count - addr_extent[1],
         state_len |-> Len(state),
         count     |-> p.count,
         window    |-> result,
         result    |-> ValueOfWindow(KEHUA, WindowParam(p), "none", result,
                                     DeviceClassToRounding("none"))]

InitWindow ==
    /\ fn_in \in PlannerDicts
    /\ fn_out = <<>>
    /\ NoProgram

ApplyReadFromState ==
    /\ fn_out = <<>>
    /\ LET extents == FindRegisterExtent(fn_in)
       IN  fn_out' =
             <<IF extents.error # "none" THEN <<>>
               ELSE [i \in 1..Len(fn_in) |-> WindowRead(extents, fn_in[i])]>>
    /\ UNCHANGED <<fn_in, program_vars>>

NextWindow == ApplyReadFromState

SpecWindow == InitWindow /\ [][NextWindow]_vars

-----------------------------------------------------------------------------
(* C4.  After find_register_extent, per category and over all parameters   *)
(* of the category, extent.min <= every address and extent.max >= every    *)
(* address + count - 1, also for a parameter that is not the one with the  *)
(* highest address.                                                        *)

ExtentCovers(extent, parameters, rt) ==
    \A i \in 1..Len(parameters) :
        parameters[i].register_type = rt =>
            /\ extent # <<>>
            /\ extent[1] <= parameters[i].addr
            /\ extent[2] >= parameters[i].addr + parameters[i].count - 1

\* C4: after find_register_extent each category's extent covers every
\* parameter of the category: min <= address and max >= address + count - 1.
C4_ExtentCoversEveryParameter ==
    (fn_out # <<>> /\ fn_out[1].error = "none") =>
        /\ ExtentCovers(fn_out[1].holding, fn_in, HOLDING_REGISTER)
        /\ ExtentCovers(fn_out[1].input, fn_in, INPUT_REGISTER)

-----------------------------------------------------------------------------
(* C5.  For every extent (min, max) with min <= max, create_batches gives  *)
(* an ordered sequence of ranges that starts at min, ends at max, each     *)
(* range starting one past the end of the previous one, every range at     *)
(* most 125 wide and only the last one possibly narrower.                  *)

TilesExtent(batches, extent) ==
    /\ Len(batches) >= 1
    /\ batches[1][1] = extent[1]
    /\ batches[Len(batches)][2] = extent[2]
    /\ \A k \in 1..Len(batches) :
          /\ batches[k][1] <= batches[k][2]
          /\ BatchWidth(batches[k]) <= 125
          /\ k < Len(batches) => /\ BatchWidth(batches[k]) = 125
                                 /\ batches[k + 1][1] = batches[k][2] + 1

\* C5: create_batches tiles [min, max] in ascending order without gap or
\* overlap, every range at most 125 wide, only the last possibly narrower.
C5_BatchesTileExtent ==
    fn_out # <<>> => TilesExtent(fn_out[1], fn_in)

\* The extent (1, 300) has been split into the widths 125, 125, 50.
C5_Witness ==
    /\ fn_in = <<1, 300>>
    /\ fn_out = << <<(<<1, 125>>), (<<126, 250>>), (<<251, 300>>)>> >>

-----------------------------------------------------------------------------
(* Claims about Server.read_batches and App.loop (specification Spec).     *)

\* App.loop has ended with the exception of a batch read: read_batches was
\* between its first request and its last response.
ReadBatchesFailed == app_phase = "crashed" /\ batch_i >= 1

\* C1: when a batch's transport read returns an error result and
\* read_batches fails, holding_state and input_state are identical to
\* their contents before the call began (nothing cleared, nothing partially
\* written).
C1_FailedReadLeavesState ==
    ReadBatchesFailed =>
        <<holding_state[Cur], input_state[Cur]>> = cycle_pre

\* C2: a batch read failure for one device is not a crash: after
\* read_batches fails inside App.loop the loop keeps running.
C2_LoopSurvivesBatchFailure ==
    ~ReadBatchesFailed

\* C3: transport operations on one Transport Client are mutually
\* exclusive: no request of the MQTT thread's handler is outstanding while
\* a request of the poll loop on the same client awaits its response.
C3_TransportMutualExclusion ==
    ~(wire["main"] # <<>> /\ wire["mqtt"] # <<>>)

\* The words of buf are, address by address, the words this cycle's
\* requests of the category were answered with.
BufferIsThisCyclesRead(buf, extent, rt) ==
    /\ Len(buf) = extent[2] - extent[1] + 1
    /\ \A i \in 1..Len(buf) :
          \E k \in 1..Len(cycle_reads) :
              LET r == cycle_reads[k]
                  a == extent[1] + i - 1
              IN  /\ r.request.register_type = rt
                  /\ r.request.addr <= a
                  /\ a < r.request.addr + r.request.count
                  /\ buf[i] = RegWord(r.request.slave, rt, a, r.gen)

\* C6: after every read_batches that completes without error, each
\* category's state buffer has length extent.max - extent.min + 1, its
\* entry i is the word read for address extent.min + i, and none of the
\* previous cycle's words remain in it.
C6_BufferAfterSuccessfulRead ==
    pc = "publish" =>
        /\ BufferIsThisCyclesRead(holding_state[Cur], holding_addr_extent[Cur],
                                  HOLDING_REGISTER)
        /\ BufferIsThisCyclesRead(input_state[Cur], input_addr_extent[Cur],
                                  INPUT_REGISTER)

\* The second read cycle of a Kehua device has completed, all 202 input
\* words in two batches, with contents that differ from the first cycle's.
C6_Witness ==
    /\ pc = "publish"
    /\ cycles = 2
    /\ family[Cur] = KEHUA
    /\ Len(input_state[Cur]) = 202
    /\ Len(cycle_reads) = 3
    /\ cycle_pre # <<>>
    /\ cycle_pre[2] # input_state[Cur]

-----------------------------------------------------------------------------
(* Claims about the command handler (specification Spec).                  *)

IsWrite(e) == e.request.op = "write"

WriteOps == SelectSeq(mqtt_log, IsWrite)

AllWritesFailed ==
    /\ Len(WriteOps) = 3
    /\ \A i \in 1..3 : WriteOps[i].outcome # "ok"

\* A step of write_registers: the one that starts it, or one that takes a
\* write's outcome.
WriteRegistersStep ==
    \/ msgs' # msgs
    \/ pc_mqtt = "w_wait" /\ mqtt_log' # mqtt_log

OwnRead(req) ==
    LET param == Param(SlugToName(msg.dev, msg.slug))
    IN  req = [op |-> "read", addr |-> param.addr, count |-> param.count,
               slave |-> ModbusId(msg.dev), register_type |-> param.register_type]

\* The value of the words a logged read was answered with.
ValueOfRead(e) ==
    LET param == Param(SlugToName(msg.dev, msg.slug))
        words == [i \in 1..e.request.count |->
                     RegWord(e.request.slave, e.request.register_type,
                             e.request.addr + i - 1, e.gen)]
    IN  Scaled(Decoded(family[msg.dev], words, param.dtype).val, param.multiplier)

\* C8: when a command's write succeeds, the same parameter is read back
\* at once with one direct transport read of its own address and word
\* count (not from holding_state / input_state), that read-back's value is
\* what is republished, and no other transport operation of the handler
\* lies between the write and the read-back.
C8_ReadBackAfterWrite ==
    /\ \A i \in 1..Len(mqtt_log) :
          (IsWrite(mqtt_log[i]) /\ mqtt_log[i].outcome = "ok") =>
              IF i < Len(mqtt_log)
              THEN /\ OwnRead(mqtt_log[i + 1].request)
                   /\ Len(mqtt_log) = i + 1
              ELSE pc_mqtt = "r_wait" /\ OwnRead(wire["mqtt"])
    /\ mqtt_result = "returned" =>
          /\ Len(mqtt_log) >= 2
          /\ mqtt_log[Len(mqtt_log)].outcome = "ok"
          /\ mqtt_pub = [dev |-> msg.dev, slug |-> msg.slug,
                         value |-> ValueOfRead(mqtt_log[Len(mqtt_log)])]

\* A first write succeeded, was read back while the polled state of the
\* device held older words, and the read-back's value was published.
C8_Witness ==
    /\ mqtt_result = "returned"
    /\ Len(mqtt_log) = 2
    /\ mqtt_log[1].outcome = "ok"
    /\ mqtt_log[2].gen = 1
    /\ holding_state[msg.dev] = ReadWords(ModbusId(msg.dev), HOLDING_REGISTER, 6024, 1, 0)

-----------------------------------------------------------------------------
(* Claims about Server.connect (specification SpecLifecycle).              *)

LifecycleOrder ==
    <<"client_connect", "is_available", "set_model",
      "setup_valid_registers_for_model", "find_register_extent",
      "create_batches">>

AllStepsSucceeded(log) ==
    /\ Len(log) = Len(LifecycleOrder)
    /\ \A i \in 1..Len(log) : log[i].ok

FreshParameters(f, m) ==
    IF f = KEHUA THEN KehuaInputRegisters
    ELSE IF IsPCS(m) THEN AtessParameters \cup PCSParameters
    ELSE IF IsPBD(m) THEN AtessParameters \cup NotPCSParameters \cup PBDParameters
    ELSE AtessParameters \cup NotPCSParameters

FreshExtent(d) ==
    FindRegisterExtent(Entries(FreshParameters(family[d], model[d])
                                 \cup WriteParameters(d)))

\* C10: a new connect attempt on a device that was connected before
\* recomputes everything from scratch: the parameter set is the profile
\* default augmented for the newly identified model only, and the extents
\* and batches are computed from exactly that set.
C10_ReconnectFromScratch ==
    (pc = "c_done" /\ last_error = "none" /\ attempts[Cur] >= 2) =>
        /\ Parameters(Cur) = FreshParameters(family[Cur], model[Cur])
        /\ holding_addr_extent[Cur] = FreshExtent(Cur).holding
        /\ input_addr_extent[Cur] = FreshExtent(Cur).input
        /\ holding_batches[Cur] = CreateBatches(FreshExtent(Cur).holding, BatchSize)
        /\ input_batches[Cur] = CreateBatches(FreshExtent(Cur).input, BatchSize)

-----------------------------------------------------------------------------
(* Claims about the parameter sets of ready devices (specification Spec).  *)

\* The device has gone through its one lifecycle run and has its batches.
ReadyOnce(d) ==
    /\ attempts[d] = 1
    /\ all_parameters[d] # <<>>
    /\ holding_batches[d] # <<>>
    /\ input_batches[d] # <<>>

\* C11: once a device has created its batches, its parameters and
\* write_parameters receive no further additions until its own next
\* lifecycle run; the lifecycle of another device of the same family does
\* not add to or change them.  (all_parameters[d] holds the parameter set
\* as it was when d's lifecycle run computed the extents.)
C11_ParametersFrozenWhenReady ==
    \A d \in Devices :
        ReadyOnce(d) =>
            Parameters(d) \cup WriteParameters(d) = all_parameters[d][1]


-----------------------------------------------------------------------------
(* Claims about the steps of Server.connect (specification SpecLifecycle). *)

ProbeRequest(d) ==
    [op |-> "read", addr |-> Param(ProbeName(family[d])).addr,
     count |-> Param(ProbeName(family[d])).count, slave |-> ModbusId(d),
     register_type |-> Param(ProbeName(family[d])).register_type]

\* C12: is_available issues exactly one transport read of the probe
\* parameter and never raises: it returns true if and only if that read
\* returns a non-error result, and false when the read returns an error
\* result or fails with a transport-level or connection-level error.
C12_IsAvailableNeverRaises ==
    /\ [](/\ pc = "c_probe_wait" => wire["main"] = ProbeRequest(Cur)
          /\ \A d \in Devices : \A i \in 1..Len(connect_log[d]) :
                connect_log[d][i].step = "is_available" =>
                    /\ connect_log[d][i].raised = "none"
                    /\ connect_log[d][i].ok <=> connect_log[d][i].outcome = "ok")
    /\ [][pc = "c_probe_wait" =>
             /\ wire'["main"] = <<>>
             /\ pc' \in {"c_model", "c_done"}
             /\ pc' = "c_done" => last_error' = "ConnectionError"]_vars

\* The probe read failed with a connection-level error, is_available
\* returned false and connect raised its own ConnectionError.
C12_Witness ==
    /\ pc = "c_done"
    /\ Len(connect_log[Cur]) = 2
    /\ connect_log[Cur][2].outcome = "OSError"
    /\ ~connect_log[Cur][2].ok
    /\ last_error = "ConnectionError"

EarlySteps == {"c_client", "c_probe", "c_probe_wait", "c_model", "c_model_wait"}

\* The attempt of d ended at the probe or at the model identification.
FailedEarly(d) ==
    /\ Len(connect_log[d]) \in {2, 3}
    /\ ~connect_log[d][Len(connect_log[d])].ok

\* C19: if the availability probe returns false, or read_model returns a
\* value that is not in supported_models (or cannot be identified), the
\* connect attempt fails with an error to the caller and no later step
\* runs: after a failed probe no model read is issued, and in both cases
\* setup_valid_registers_for_model is not run, the parameter set is
\* unchanged and no extents or batches are created.
C19_FailedProbeOrModelStops ==
    /\ [](\A d \in Devices :
            (FailedEarly(d) /\ d = Cur) =>
                /\ pc \in {"c_done", "idle", "crashed"}
                /\ last_error \in {"ConnectionError", "ValueError", "Exception"}
                /\ wire["main"] = <<>>
                /\ attempts[d] = 1 =>
                       /\ all_parameters[d] = <<>>
                       /\ holding_addr_extent[d] = <<>>
                       /\ input_addr_extent[d] = <<>>
                       /\ holding_batches[d] = <<>>
                       /\ input_batches[d] = <<>>)
    /\ [][(pc \in EarlySteps \/ (pc = "c_done" /\ FailedEarly(Cur))) =>
             /\ UNCHANGED <<atess_parameters, all_parameters, holding_addr_extent,
                            input_addr_extent, holding_batches, input_batches>>
             /\ (pc = "c_done" /\ FailedEarly(Cur)) => pc' \notin {"c_model", "c_setup", "c_extent", "c_batches"}
             /\ (pc = "c_probe_wait" /\ pc' = "c_done") => Len(connect_log'[Cur]) = 2
             /\ (pc = "c_model_wait" /\ ~connect_log'[Cur][3].ok) => pc' = "c_done"]_vars

\* A second attempt of an Atess device identified an unsupported model and
\* ended there.
C19_Witness ==
    /\ pc = "c_done"
    /\ family[Cur] = ATESS
    /\ attempts[Cur] = 2
    /\ Len(connect_log[Cur]) = 3
    /\ ~connect_log[Cur][3].ok
    /\ model[Cur] = "HPS30"
    /\ last_error = "ValueError"

-----------------------------------------------------------------------------
(* Claims about the reads of one read_batches call (specification Spec).   *)

\* C14: read_batches aborts at the first batch whose transport read
\* returns an error result: after that error no further transport read is
\* issued in that call, neither for the remaining batches of the same
\* category nor for any batch of the other category.
C14_ReadBatchesAbortsAtFirstError ==
    /\ [](ReadBatchesFailed =>
            /\ wire["main"] = <<>>
            /\ Len(cycle_reads) < Len(holding_batches[Cur]) + Len(input_batches[Cur]))
    /\ [][ReadBatchesFailed => UNCHANGED <<cycle_reads, holding_state, input_state>>
                               /\ wire'["main"] = <<>>]_vars

\* The first input batch of a Kehua device failed after the holding batch
\* had been read; the second input batch was left unread.
C14_Witness ==
    /\ ReadBatchesFailed
    /\ family[Cur] = KEHUA
    /\ Len(cycle_reads) = 1
    /\ batch_i = 1
    /\ Len(input_batches[Cur]) = 2

\* The reads of a whole read_batches call of d, in order.
ExpectedReads(d) ==
    [i \in 1..(Len(holding_batches[d]) + Len(input_batches[d])) |->
        LET h  == Len(holding_batches[d])
            rt == IF i <= h THEN HOLDING_REGISTER ELSE INPUT_REGISTER
            b  == IF i <= h THEN holding_batches[d][i] ELSE input_batches[d][i - h]
        IN  [op |-> "read", addr |-> b[1], count |-> b[2] - b[1] + 1,
             slave |-> ModbusId(d), register_type |-> rt]]

IssuedReads ==
    [i \in 1..Len(cycle_reads) |-> cycle_reads[i].request]
        \o (IF wire["main"] = <<>> THEN <<>> ELSE <<wire["main"]>>)

\* C15: the transport reads of one successful read_batches call are
\* exactly every holding batch in ascending address order, then every
\* input batch in ascending address order, each request being (batch start,
\* batch width, the device's slave id, the category) with width at most
\* 125; no input read precedes a holding read of the same call.
C15_ReadOrderOfReadBatches ==
    /\ pc \in {"rb_holding", "rb_input"} =>
          /\ Len(IssuedReads) <= Len(ExpectedReads(Cur))
          /\ \A i \in 1..Len(IssuedReads) : IssuedReads[i] = ExpectedReads(Cur)[i]
    /\ pc = "publish" =>
          /\ IssuedReads = ExpectedReads(Cur)
          /\ \A i \in 1..Len(IssuedReads) :
                /\ IssuedReads[i].count <= 125
                /\ \A j \in 1..(i - 1) :
                      /\ IssuedReads[j].register_type = INPUT_REGISTER =>
                             IssuedReads[i].register_type = INPUT_REGISTER
                      /\ IssuedReads[j].register_type = IssuedReads[i].register_type =>
                             IssuedReads[j].addr < IssuedReads[i].addr

\* A Kehua device's read_batches has returned after one holding read and
\* two input reads.
C15_Witness ==
    /\ pc = "publish"
    /\ family[Cur] = KEHUA
    /\ Len(cycle_reads) = 3
    /\ cycle_reads[1].request.register_type = HOLDING_REGISTER
    /\ cycle_reads[3].request.count = 77

-----------------------------------------------------------------------------
(* Claims about find_register_extent (specification SpecExtent).           *)

HasCategory(parameters, rt) ==
    \E i \in 1..Len(parameters) : parameters[i].register_type = rt

\* C16: when a device has no parameter of one register category,
\* find_register_extent completes without error with that category's
\* extent absent (so that no batch is created and no read issued for it),
\* while the other category is still planned.
C16_MissingCategoryTolerated ==
    (fn_out # <<>> /\ ~(HasCategory(fn_in, HOLDING_REGISTER)
                          /\ HasCategory(fn_in, INPUT_REGISTER))) =>
        /\ fn_out[1].error = "none"
        /\ ~HasCategory(fn_in, HOLDING_REGISTER) => fn_out[1].holding = <<>>
        /\ ~HasCategory(fn_in, INPUT_REGISTER) => fn_out[1].input = <<>>
        /\ HasCategory(fn_in, HOLDING_REGISTER) => fn_out[1].holding # <<>>
        /\ HasCategory(fn_in, INPUT_REGISTER) => fn_out[1].input # <<>>


-----------------------------------------------------------------------------
(* Claims about the values of the two read paths (specification SpecValue). *)

\* C13: for every parameter, read_from_state on the words a successful
\* read_batches stored and read_registers on the same words read directly
\* return the same value, rounded to the same precision, also for a
\* parameter whose unit starts with the kilo prefix.
C13_StateValueEqualsDirectValue ==
    fn_out # <<>> =>
        /\ fn_out[1].from_state.result = fn_out[1].from_read.result
        /\ fn_out[1].from_state.ndigits = fn_out[1].from_read.ndigits


-----------------------------------------------------------------------------
(* Claims about the window of read_from_state (specification SpecWindow).  *)

\* The window [start, stop) is not wholly inside a buffer of the length.
PartlyOutside(start, stop, state_len) == start < 0 \/ stop > state_len

\* C18: read_from_state fails with an index error whenever the window
\* [address - extent.min, address + count - extent.min) of the parameter
\* falls wholly or partly outside the category's state buffer, and it
\* never decodes a window of fewer words than the parameter's word count.
C18_WindowOutsideBufferIsIndexError ==
    fn_out # <<>> =>
        \A i \in 1..Len(fn_out[1]) :
            LET r == fn_out[1][i]
            IN  /\ PartlyOutside(r.start, r.stop, r.state_len)
                       => r.result.error = "IndexError"
                /\ r.result.error = "none" => Len(r.window) = r.count


-----------------------------------------------------------------------------
(* Claims about calls with an undefined name (specification SpecApi).      *)

\* The call's name (or slug) is defined in neither parameters nor
\* write_parameters of its device.
UndefinedName(call) ==
    LET defined == Parameters(call.dev) \cup WriteParameters(call.dev)
    IN  IF call.op = "write_registers"
        THEN call.name \notin { Slugify(n) : n \in defined }
        ELSE call.name \notin defined

\* The fields of the Server objects and the registers of the devices.
DeviceState ==
    <<family, model, atess_parameters, holding_addr_extent, input_addr_extent,
      holding_batches, input_batches, holding_state, input_state, gen>>

-----------------------------------------------------------------------------
(* Claims about process exit (specification Spec).                         *)

\* Position in exit_log of the offline publication for the device, 0 if
\* there is none.
OfflineAt(d) ==
    IF \E i \in 1..Len(exit_log) : exit_log[i] = ExitEvent("publish_offline", d)
    THEN CHOOSE i \in 1..Len(exit_log) :
            exit_log[i] = ExitEvent("publish_offline", d)
    ELSE 0

\* C20: when the process has exited, offline was published for every
\* configured device, and each of these publications precedes every
\* close of a transport client and the stop of the telemetry client's
\* network loop.
C20_OfflinePublishedOnExit ==
    exit_log # <<>> =>
        \A d \in Devices :
            /\ OfflineAt(d) # 0
            /\ \A j \in 1..Len(exit_log) :
                   exit_log[j].ev \in {"close", "loop_stop"} => OfflineAt(d) < j


-----------------------------------------------------------------------------
(* Claims about the codecs (specifications SpecCodec and SpecS16).         *)

\* C21: for the Kehua codec, T in {U16, U32} and every list of the words
\* T requires (one for U16, two for U32), _encoded(_decoded(words, T), T)
\* equals words.
C21_KehuaRoundTrip ==
    (/\ fn_out # <<>>
     /\ fn_in.op = "roundtrip" /\ fn_in.f = KEHUA
     /\ \/ fn_in.dtype = U16 /\ Len(fn_in.registers) = 1
        \/ fn_in.dtype = U32 /\ Len(fn_in.registers) = 2)
        => fn_out[1] = Ok(fn_in.registers)

High16(val) == val[1] \div 65536 + (IF Len(val) = 2 THEN 65536 ELSE 0)

Low16(val) == val[1] % 65536

DecodableTypes(f) ==
    IF f = KEHUA THEN {U16, I16, U32, I32, UTF8} ELSE {U16, I16, U32, UTF8}

EncodableTypes(f) == IF f = KEHUA THEN {U16} ELSE {}

\* C25: _decoded and _encoded raise NotImplementedError for a data type
\* the family's codec does not support and never return a result
\* (a None included) for it.
C25_UnsupportedTypeRaises ==
    fn_out # <<>> =>
        /\ (fn_in.op = "decode" /\ fn_in.dtype \notin DecodableTypes(fn_in.f))
              => fn_out[1].error = "NotImplementedError"
        /\ (fn_in.op = "encode" /\ fn_in.dtype \notin EncodableTypes(fn_in.f))
              => fn_out[1].error = "NotImplementedError"

\* The bytes of the words, for each word its high byte then its low byte.
BytesOf(registers) ==
    [i \in 1..(2 * Len(registers)) |->
        IF i % 2 = 1 THEN registers[(i + 1) \div 2] \div 256
        ELSE registers[i \div 2] % 256]

\* C26: for either family, the UTF8 decode of n words gives the 2n
\* characters that are, word by word, the high byte and then the low
\* byte; [0x4142, 0x4344] gives "ABCD".
C26_Utf8DecodesEveryWord ==
    (fn_out # <<>> /\ fn_in.op = "decode" /\ fn_in.dtype = UTF8) =>
        fn_out[1] = Ok(BytesOf(fn_in.registers))

-----------------------------------------------------------------------------
(* Claims about the lookup set of read_from_state (specification Spec).    *)

\* The window of the parameter lies inside the planned extent of its
\* category.
WindowInsideExtent(d, name) ==
    LET addr_extent == ExtentOfCategory(d, Param(name).register_type)
    IN  /\ addr_extent # <<>>
        /\ addr_extent[1] <= Param(name).addr
        /\ Param(name).addr + Param(name).count - 1 <= addr_extent[2]

\* C27: for every device that has created its batches, all_parameters (the
\* lookup set of read_from_state) equals parameters united with
\* write_parameters as they are now, so every name App.loop iterates is
\* found by read_from_state with its window inside the planned extent,
\* also after another device's lifecycle has run.
C27_LookupSetIsCurrentParameters ==
    \A d \in Devices :
        holding_batches[d] # <<>> =>
            /\ all_parameters[d] = <<Parameters(d) \cup WriteParameters(d)>>
            /\ \A name \in Parameters(d) \cup WriteParameters(d) :
                   /\ name \in AllParameters(d)
                   /\ WindowInsideExtent(d, name)

-----------------------------------------------------------------------------
(* Claims about what App.loop publishes (specification Spec).              *)

\* The read of the running read_batches call that covered the address.
CycleReadOf(rt, a) ==
    CHOOSE k \in 1..Len(cycle_reads) :
        /\ cycle_reads[k].request.register_type = rt
        /\ cycle_reads[k].request.addr <= a
        /\ a < cycle_reads[k].request.addr + cycle_reads[k].request.count

\* Every address of the parameter was read by the read_batches call.
CoveredByCycle(name) ==
    \A a \in Param(name).addr .. (Param(name).addr + Param(name).count - 1) :
        \E k \in 1..Len(cycle_reads) :
            /\ cycle_reads[k].request.register_type = Param(name).register_type
            /\ cycle_reads[k].request.addr <= a
            /\ a < cycle_reads[k].request.addr + cycle_reads[k].request.count

\* The value of the parameter decoded from the words the device answered
\* the reads of the read_batches call with.
ValueFromCycle(d, name) ==
    LET param == Param(name)
        words == [i \in 1..param.count |->
                    LET r == cycle_reads[CycleReadOf(param.register_type,
                                                     param.addr + i - 1)]
                    IN  RegWord(r.request.slave, param.register_type,
                                param.addr + i - 1, r.gen)]
    IN  ValueOf(family[d], param, DeviceClassOf(name), words,
                DeviceClassToRounding(DeviceClassOf(name)))

\* C28: App.loop publishes values of a device only after the read_batches
\* of that device has completed without error in the same cycle, and every
\* published value is decoded from the words that read_batches call read:
\* none from an earlier cycle, none from a partly filled buffer.
C28_PublishedFromThisCyclesRead ==
    [][\A d \in Devices :
          published'[d] # published[d] =>
              /\ pc = "publish" /\ d = Servers[cur]
              /\ Len(holding_state[d]) =
                    holding_addr_extent[d][2] - holding_addr_extent[d][1] + 1
              /\ Len(input_state[d]) =
                    input_addr_extent[d][2] - input_addr_extent[d][1] + 1
              /\ \A k \in 1..Len(cycle_reads) :
                    cycle_reads[k].request.slave = ModbusId(d)
              /\ \A pub \in published'[d] :
                    /\ CoveredByCycle(pub[1])
                    /\ ValueFromCycle(d, pub[1]) = Ok(pub[2])]_vars

\* The first device's values were published in the second cycle, from
\* register contents that differ from the first cycle's.
C28_Witness ==
    /\ cycles = 2 /\ pc = "rb_begin" /\ cur = 2
    /\ published[Servers[1]] # {}
    /\ cycle_pre # <<>>
    /\ cycle_pre[2] # input_state[Servers[1]]
    /\ \A pub \in published[Servers[1]] :
           ValueFromCycle(Servers[1], pub[1]) = Ok(pub[2])

-----------------------------------------------------------------------------
(* Claims about Server.model (specification Spec).                         *)

\* C29: the model of a newly constructed device is "unknown", and it
\* changes only in the model-identification step of a lifecycle run, once
\* per connect attempt; read_batches, read_from_state, write_registers
\* and is_available do not change it.
C29_ModelUnknownUntilIdentified ==
    /\ [](\A d \in Devices : attempts[d] = 0 => model[d] = "unknown")
    /\ [][\A d \in Devices :
            model'[d] # model[d] =>
                /\ pc = "c_model_wait" /\ d = Servers[cur]
                /\ ~(\E i \in 1..Len(connect_log[d]) :
                        connect_log[d][i].step = "set_model")]_vars

-----------------------------------------------------------------------------
(* The word order tests/test_kehua_inverter.py expects of the Kehua        *)
(* 32-bit decoders.                                                        *)

\* C31: the Kehua U32 decode of [772, 258] is 16909060, the I32 decode of
\* [30587, 65535] is -34949 and of [65535, 65535] is -1; in general the
\* second word of the list is the high and the first word the low 16 bits.
C31_KehuaDecode32SecondWordHigh ==
    (/\ fn_out # <<>> /\ fn_in.op = "decode" /\ fn_in.f = KEHUA
     /\ Len(fn_in.registers) = 2) =>
        LET l == fn_in.registers[1]
            h == fn_in.registers[2]
        IN  /\ fn_in.dtype = U32 =>
                  /\ fn_out[1].error = "none"
                  /\ High16(fn_out[1].val) = h
                  /\ Low16(fn_out[1].val) = l
                  /\ fn_in.registers = <<772, 258>> =>
                        fn_out[1] = Ok(<<16909060>>)
            /\ fn_in.dtype = I32 =>
                  /\ fn_out[1].error = "none"
                  /\ Len(fn_out[1].val) = 1
                  /\ Low16(fn_out[1].val) = l
                  /\ High16(fn_out[1].val) =
                        (IF h < 32768 THEN h ELSE h - 65536)
                  /\ fn_in.registers = <<30587, 65535>> =>
                        fn_out[1] = Ok(<<-34949>>)
                  /\ fn_in.registers = <<65535, 65535>> =>
                        fn_out[1] = Ok(<<-1>>)

-----------------------------------------------------------------------------
(* Specification SpecWrite: write_registers applied to write parameters of *)
(* the shapes atess_write_parameters and holding_parameters hold (switch,  *)
(* number and select entries of numeric type with multiplier 1 or 0.1, a   *)
(* text entry), for either family, a few payload texts, two slave ids and  *)
(* both outcomes of the transport write.                                   *)

WriteKinds == {"switch", "number", "select"}

\* Decimal and hexadecimal integer literals, a fraction, a word.
RawValues == {"5", "50", "0x10", "2.5", "on"}

WriteParams ==
    { p \in { ParamRec(a, 1, t, rt, m, k) :
                a \in {14, 6024}, t \in {U16, I16, UTF8},
                rt \in RegisterTypes, m \in {"1", "0.1"}, k \in WriteKinds } :
        p.dtype = UTF8 => p.ha_entity_type = "select" }

InitWrite ==
    /\ fn_in \in [f : Families, param : WriteParams, payload : RawValues,
                  modbus_id : 1..2, outcome : {"ok", "ModbusException"}]
    /\ fn_out = <<>>
    /\ NoProgram

ApplyWriteRegisters ==
    /\ fn_out = <<>>
    /\ fn_out' = <<WriteOf(fn_in.f, fn_in.param, fn_in.payload,
                           fn_in.modbus_id, fn_in.outcome)>>
    /\ UNCHANGED <<fn_in, program_vars>>

NextWrite == ApplyWriteRegisters

SpecWrite == InitWrite /\ [][NextWrite]_vars

-----------------------------------------------------------------------------
(* The value write_registers hands to the codec and the address of its     *)
(* transport write.                                                        *)

\* The number a payload text denotes, in tenths.
TenthsDenoted(payload) ==
    CASE payload = "5"    -> 50
      [] payload = "50"   -> 500
      [] payload = "0x10" -> 160
      [] payload = "2.5"  -> 25

\* The number a value handed to the codec stands for, in tenths.
TenthsOf(value) == (10 * value.n) \div value.den

\* C32: for a switch-kind parameter the codec is handed the integer the
\* payload denotes, undivided whatever the multiplier; for a number-kind
\* parameter it is handed the parsed number divided by the multiplier when
\* that is not 1 (payload 50 with multiplier 0.1 is encoded as [500]); and
\* every transport write carries the parameter's address and register
\* type and the device's slave id.
C32_WriteValueByEntityKind ==
    fn_out # <<>> =>
        LET p == fn_in.param
            r == fn_out[1]
        IN  /\ (p.ha_entity_type = "switch"
                  /\ fn_in.payload \in {"5", "50", "0x10"}) =>
                  /\ r.value.error = "none"
                  /\ ~r.value.val.is_float
                  /\ TenthsOf(r.value.val) = TenthsDenoted(fn_in.payload)
            /\ (p.ha_entity_type = "number"
                  /\ fn_in.payload \in {"5", "50", "2.5"}) =>
                  /\ r.value.error = "none"
                  /\ r.value.val.is_float
                  /\ TenthsOf(r.value.val) =
                        IF p.multiplier = "1"
                        THEN TenthsDenoted(fn_in.payload)
                        ELSE 10 * TenthsDenoted(fn_in.payload)
            /\ (p.ha_entity_type = "number" /\ p.multiplier = "0.1"
                  /\ p.dtype = U16 /\ fn_in.payload = "50"
                  /\ fn_in.f = KEHUA) =>
                  /\ Len(r.requests) >= 1
                  /\ r.requests[1].values = <<500>>
            /\ \A i \in 1..Len(r.requests) :
                  /\ r.requests[i].op = "write"
                  /\ r.requests[i].addr = p.addr
                  /\ r.requests[i].register_type = p.register_type
                  /\ r.requests[i].slave = fn_in.modbus_id

C32_Witness ==
    /\ fn_out # <<>>
    /\ fn_in.param.ha_entity_type = "switch"
    /\ fn_in.param.multiplier = "0.1"
    /\ fn_in.param.dtype = U16
    /\ fn_in.f = KEHUA /\ fn_in.payload = "50" /\ fn_in.modbus_id = 2
    /\ fn_out[1].value = Ok(PyInt(50))
    /\ Len(fn_out[1].requests) = 1
    /\ fn_out[1].requests[1] =
          WriteRequest(<<50>>, fn_in.param.addr, 2,
                       fn_in.param.register_type)

-----------------------------------------------------------------------------
(* The values a device's model takes.                                      *)

\* C33: in every reachable state each device's model is the value its
\* constructor gave it or one of its supported models (so a connect
\* attempt that fails on an unsupported model leaves the model as it was).
C33_ModelInitialOrSupported ==
    \A d \in Devices :
        \/ model[d] = InitialModel(family[d])
        \/ model[d] \in SupportedModels(family[d])

-----------------------------------------------------------------------------
(* The command handler after a write that failed.                          *)

\* The handler has a read-back outstanding or answered.
ReadBackIssued ==
    \/ pc_mqtt = "r_wait"
    \/ \E i \in 1..Len(mqtt_log) : ~IsWrite(mqtt_log[i])

SomeWriteSucceeded ==
    \E i \in 1..Len(mqtt_log) :
        IsWrite(mqtt_log[i]) /\ mqtt_log[i].outcome = "ok"

\* C34: a command whose write failed on all its attempts is followed by
\* no read-back and no publication; a read-back and a publication happen
\* only after the command's write succeeded; and a read-back that fails
\* does not raise out of the handler.
C34_ReadBackOnlyAfterSuccessfulWrite ==
    /\ AllWritesFailed => ~ReadBackIssued /\ mqtt_pub = <<>>
    /\ ReadBackIssued => SomeWriteSucceeded
    /\ mqtt_pub # <<>> => SomeWriteSucceeded
    /\ mqtt_result # "Exception"

-----------------------------------------------------------------------------
(* The device a command is applied to.                                     *)

\* C35: every transport operation of a command carries the slave id of
\* the configured device the topic names, and a command whose topic names
\* no configured device ends with the ValueError that names the device,
\* without any transport operation.
C35_CommandAppliedToNamedDevice ==
    msg # <<>> =>
        IF msg.dev \in Devices
        THEN /\ \A i \in 1..Len(mqtt_log) :
                   mqtt_log[i].request.slave = ModbusId(msg.dev)
             /\ wire["mqtt"] # <<>> =>
                   wire["mqtt"].slave = ModbusId(msg.dev)
        ELSE /\ mqtt_log = <<>>
             /\ wire["mqtt"] = <<>>
             /\ pc_mqtt = "idle"
             /\ mqtt_result = "ValueError"

-----------------------------------------------------------------------------
(* Specification SpecStartup: App.connect as app.py runs it (lines 84-109),*)
(* with its discovery step, and the exit of the process when it raises.    *)

\* modbus_mqtt.py:95-101: the device dict is built from
\* server.manufacturer() and server.model().  Both are properties that
\* return a str (server.py:166-177, kehua_inverter.py:186-188,
\* atess_inverter.py:26-28), and calling a str raises TypeError.
DeviceInfo(d) == Err("TypeError")

\* modbus_mqtt.py:82-168: publish_discovery_topics(server) once the broker
\* is connected: what it raised, and what it published and subscribed
\* before - the sensor configs, "online" (line 134), then the command
\* configs and the subscription of each command topic (line 168).
PublishDiscoveryTopicsOf(d) ==
    IF Parameters(d) = {}                                     \* lines 90-94
    THEN [error |-> "ValueError", events |-> <<>>]
    ELSE IF DeviceInfo(d).error # "none"
    THEN [error |-> DeviceInfo(d).error, events |-> <<>>]
    ELSE [error  |-> "none",
          events |-> <<"sensor_config", "online">>
                       \o (IF WriteParameters(d) = {} THEN <<>>
                           ELSE <<"command_config", "subscribe">>)]

\* app.py:92-105: the MqttClient is set up, exit_handler is registered
\* with atexit and loop_start() starts the network thread.
AppMqttSetup ==
    /\ app_phase = "connect"
    /\ pc = "idle"
    /\ cur = Len(Servers)
    /\ atexit_registered' = TRUE
    /\ mqtt_started' = TRUE
    /\ pc' = "discovery"
    /\ cur' = 0
    /\ UNCHANGED <<fn_vars, exit_log, announced, server_vars, gen, wire,
                   pc_mqtt, msg, attempt, msgs, mqtt_log, mqtt_result,
                   mqtt_pub, app_phase, batch_i, cycles, attempts, last_error,
                   connect_log, cycle_pre, cycle_reads, published>>

\* app.py:107-109: publish_discovery_topics for the next server; after the
\* last one App.connect returns and App.loop is entered (app.py:194-195).
PublishDiscoveryTopics ==
    /\ app_phase = "connect"
    /\ pc = "discovery"
    /\ cur < Len(Servers)
    /\ LET d == Servers[cur + 1]
           r == PublishDiscoveryTopicsOf(d)
       IN  /\ announced' = [announced EXCEPT ![d] = r.events]
           /\ IF r.error # "none"
              THEN Crash(r.error) /\ UNCHANGED cur
              ELSE /\ cur' = cur + 1
                   /\ UNCHANGED last_error
                   /\ IF cur + 1 = Len(Servers)
                      THEN app_phase' = "loop" /\ pc' = "loop_cycle"
                      ELSE UNCHANGED <<app_phase, pc>>
    /\ UNCHANGED <<fn_vars, atexit_registered, exit_log, server_vars, gen,
                   wire, mqtt_vars, batch_i, cycles, attempts, connect_log,
                   cycle_pre, cycle_reads, published>>

NextStartup ==
    \/ \E ok \in BOOLEAN : AppConnectClients(ok)
    \/ AppConnectServer
    \/ ConnectStep
    \/ AppConnectReturn
    \/ AppMqttSetup
    \/ PublishDiscoveryTopics
    \/ ProcessExit

SpecStartup == Init /\ [][NextStartup]_vars

-----------------------------------------------------------------------------
(* Claims about the start of the process (specification SpecStartup).      *)

\* The device's connect attempt went through all six steps and left its
\* batches.
BatchesReady(d) ==
    /\ AllStepsSucceeded(connect_log[d])
    /\ holding_batches[d] # <<>>
    /\ input_batches[d] # <<>>

\* The device's connect attempt has raised.
ConnectFailed(d) ==
    /\ connect_log[d] # <<>>
    /\ ~connect_log[d][Len(connect_log[d])].ok

AnnouncedOnline(d) ==
    \E i \in 1..Len(announced[d]) : announced[d][i] \in {"online", "subscribe"}

\* C36: a device is announced online, and its command topics are
\* subscribed, only when its connect attempt has left its batches; and
\* once any device's connect attempt has failed, App.connect goes no
\* further: the telemetry client is not started, no device is announced
\* online and App.loop is not entered.
C36_OnlineOnlyAfterBatchesReady ==
    /\ \A d \in Devices : AnnouncedOnline(d) => BatchesReady(d)
    /\ (\E d \in Devices : ConnectFailed(d)) =>
          /\ \A d \in Devices : ~AnnouncedOnline(d)
          /\ ~mqtt_started
          /\ app_phase # "loop"
          /\ pc \in {"c_done", "crashed"}

\* The second device's connect attempt failed after the first had its
\* batches, and the process has exited without an announcement.
C36_Witness ==
    /\ BatchesReady(Servers[1])
    /\ ConnectFailed(Servers[2])
    /\ app_phase = "crashed"
    /\ exit_log # <<>>
    /\ \A d \in Devices : announced[d] = <<>>

=============================================================================
